---- MODULE Spec2Model ----
(***************************************************************************)
(* A model of canzero-config-rs' NetworkBuilder                            *)
(* (src/src/builder/network_builder.rs): the builder graph, the            *)
(* declaration calls and the build() pipeline that compiles the graph      *)
(* into a Network.                                                         *)
(*                                                                         *)
(* Type descriptors are strings in the source ("u8", "d10<0..100>",        *)
(* "u8[4]", "my_struct").  Here a descriptor is the record of what the     *)
(* regular expressions of resolve_type capture from the string: its tag    *)
(* (i, u, d, arr, name), the size digits, the range bounds, the array      *)
(* length and inner descriptor, and the name.                              *)
(***************************************************************************)
EXTENDS Integers, Sequences, FiniteSets, TLC

VARIABLES
    buses,          \* NetworkData.buses: the declared BusBuilders
    types,          \* NetworkData.types: the declared TypeBuilders
    messages,       \* NetworkData.messages: the declared MessageBuilders
    nodes,          \* NetworkData.nodes: the declared NodeBuilders
    pc,             \* position of build(): decl, types, ids, messages, ...
    result,         \* outcome of build(): none, Ok, an error kind, or panic
    net_buses,      \* build(): the local `buses`
    type_builders,  \* build(): the local `type_builders` (sorted)
    net_types,      \* build(): the local `types`
    net_messages,   \* build(): the local `messages`
    net_nodes,      \* build(): the local `nodes`
    node_i,         \* build(): index of the node loop in progress
    overflow_checks \* the build profile: arithmetic overflow panics (debug)
                    \* or wraps (release); fixed when the program is compiled

vars == <<buses, types, messages, nodes, pc, result, net_buses, type_builders,
          net_types, net_messages, net_nodes, node_i, overflow_checks>>

builder_vars == <<buses, types, messages, nodes>>
build_vars == <<pc, result, net_buses, type_builders, net_types, net_messages,
                net_nodes, node_i>>

(***************************************************************************)
(* Bounds of the model.                                                    *)
(***************************************************************************)
MaxEntries == 3       \* entries added to one enum
MaxEnumValue == 5     \* largest explicit enum value
MaxAttribs == 2       \* attributes added to one struct
MaxFields == 2        \* fields added to one typed message format
MaxRawSignals == 3    \* signals added to one raw signal format
MaxStreamLen == 5     \* object entries of one tx stream
MaxPairs == 2         \* (position, object entry) pairs of one rx stream
MaxBuses == 2         \* declared buses
MaxUserMessages == 2  \* messages made by create_message after new()
MaxUsers == 2         \* commands and tx streams of one node that share messages
MaxObjectEntries == 3 \* object entries created on one node
MaxExterns == 2       \* extern commands declared in the network
MaxNodes == 3         \* nodes made by create_node, and the names to choose from

(***************************************************************************)
(* Generic helpers.                                                        *)
(***************************************************************************)
RECURSIVE Pow2(_)
Pow2(k) == IF k <= 0 THEN 1 ELSE 2 * Pow2(k - 1)

Max2(a, b) == IF a >= b THEN a ELSE b

\* Iterator::position / find by name: index of the first element whose name
\* is `name`, 0 if there is none.
RECURSIVE PositionFrom(_, _, _)
PositionFrom(seq, name, k) ==
    IF k > Len(seq) THEN 0
    ELSE IF seq[k].name = name THEN k
    ELSE PositionFrom(seq, name, k + 1)

Position(seq, name) == PositionFrom(seq, name, 1)

\* Option<T>: None is the empty sequence, Some(x) is <<x>>.
None == <<>>
Some(x) == <<x>>

(***************************************************************************)
(* Type descriptors: the string `name` (the type_name given to             *)
(* resolve_type) with its shape `tag` and the parts the regular            *)
(* expressions capture.  Sizes have one or two digits (0..99); the length  *)
(* of an array is kept as the text [0-9]+ the expression captures.         *)
(***************************************************************************)
Desc(tag, size, min, max, len, inner, name) ==
    [tag |-> tag, size |-> size, min |-> min, max |-> max, len |-> len,
     inner |-> inner, name |-> name]

\* "i<n>", "u<n>", "d<n><min..max>", "<inner>[<len>]", and any other string.
DescI(n) == Desc("i", n, 0, 0, "", <<>>, "i" \o ToString(n))
DescU(n) == Desc("u", n, 0, 0, "", <<>>, "u" \o ToString(n))
DescD(n, min, max) ==
    Desc("d", n, min, max, "", <<>>,
         "d" \o ToString(n) \o "<" \o ToString(min) \o ".." \o ToString(max) \o ">")
DescArr(inner, len) ==
    Desc("arr", 0, 0, 0, len, <<inner>>, inner.name \o "[" \o len \o "]")
DescName(name) == Desc("name", 0, 0, 0, "", <<>>, name)

(***************************************************************************)
(* config::Type and config::SignalType.                                    *)
(***************************************************************************)
\* A scale is the quotient range / (2^ones - 1): the divisor is a u64 of
\* `ones` one-bits (0xFFFFFFFFFFFFFFFF shifted right by 64 - ones).
Scale(range, ones) == [range |-> range, ones |-> ones]
NoScale == Scale(0, 0)

NoSignalType == [kind |-> "none", size |-> 0, offset |-> 0, scale |-> NoScale]

SignedInt(size) == [kind |-> "SignedInt", size |-> size, offset |-> 0, scale |-> NoScale]
UnsignedInt(size) == [kind |-> "UnsignedInt", size |-> size, offset |-> 0, scale |-> NoScale]
\* SignalType::Decimal {size, offset, scale}
Decimal(size, offset, scale) ==
    [kind |-> "Decimal", size |-> size, offset |-> offset, scale |-> scale]

TypePrimitive(st) ==
    [kind |-> "Primitive", name |-> "", st |-> st, size |-> 0,
     attribs |-> <<>>, entries |-> <<>>, len |-> 0, ty |-> <<>>]
TypeStruct(name, attribs) ==
    [kind |-> "Struct", name |-> name, st |-> NoSignalType, size |-> 0,
     attribs |-> attribs, entries |-> <<>>, len |-> 0, ty |-> <<>>]
TypeEnum(name, size, entries) ==
    [kind |-> "Enum", name |-> name, st |-> NoSignalType, size |-> size,
     attribs |-> <<>>, entries |-> entries, len |-> 0, ty |-> <<>>]
TypeArray(len, ty) ==
    [kind |-> "Array", name |-> "", st |-> NoSignalType, size |-> 0,
     attribs |-> <<>>, entries |-> <<>>, len |-> len, ty |-> <<ty>>]

\* errors::Result<T>: Ok(v) or Err(kind); a fault (panic) is kind "panic".
Ok(v) == [ok |-> TRUE, err |-> "", v |-> <<v>>]
Err(kind) == [ok |-> FALSE, err |-> kind, v |-> <<>>]

(***************************************************************************)
(* u64: the values of enum entries.  A u64 is the tuple of its four 16-bit *)
(* words, the most significant first, so that every value up to u64::MAX   *)
(* can be written.                                                         *)
(***************************************************************************)
Word == Pow2(16)

\* The u64 of a number below 2^31.
U64(n) == <<0, 0, n \div Word, n % Word>>

U64Max == <<Word - 1, Word - 1, Word - 1, Word - 1>>   \* u64::MAX

\* a < b
lt_u64(a, b) ==
    \E i \in 1..4 : a[i] < b[i] /\ \A j \in 1..(i - 1) : a[j] = b[j]

\* u64::max
max_u64(a, b) == IF lt_u64(a, b) THEN b ELSE a

\* a + 1 on u64: it overflows for u64::MAX and then wraps to 0.
add_one(a) ==
    [overflow |-> a = U64Max,
     v |-> IF a[4] < Word - 1 THEN <<a[1], a[2], a[3], a[4] + 1>>
           ELSE IF a[3] < Word - 1 THEN <<a[1], a[2], a[3] + 1, 0>>
           ELSE IF a[2] < Word - 1 THEN <<a[1], a[2] + 1, 0, 0>>
           ELSE IF a[1] < Word - 1 THEN <<a[1] + 1, 0, 0, 0>>
           ELSE <<0, 0, 0, 0>>]

\* The number of binary digits of a number n >= 0.
RECURSIVE bits(_)
bits(n) == IF n = 0 THEN 0 ELSE 1 + bits(n \div 2)

\* The largest m for which (2^k + m) as f64 has the log2 k: the conversion
\* to f64 keeps 53 binary digits (round to nearest even) and the f64
\* result of log2 is rounded to the nearest f64, which is k itself as long
\* as log2(1 + m / 2^k) stays below 2^-48.
log2_slack(k) ==
    IF k < 49 THEN 0
    ELSE IF k <= 52 THEN 22713 \div Pow2(63 - k)
    ELSE 23 * Pow2(k - 53) - 1

\* The log2 of the f64 of 2^k + m, rounded up, for a u64 m < 2^k.
log2_ceil_of(k, m) ==
    IF m[1] = 0 /\ m[2] = 0 /\ m[3] = 0 /\ m[4] <= log2_slack(k)
        THEN k
    ELSE k + 1

\* x = 2^k + m, where the digit k is digit number `digit` of the word i.
log2_ceil_at(x, i, digit) ==
    log2_ceil_of(16 * (4 - i) + digit, [x EXCEPT ![i] = @ - Pow2(digit)])

\* (x as f64).log2().ceil() as u8 for a u64 x; log2(0) = -inf casts to 0.
log2_ceil(x) ==
    IF x[1] # 0 THEN log2_ceil_at(x, 1, bits(x[1]) - 1)
    ELSE IF x[2] # 0 THEN log2_ceil_at(x, 2, bits(x[2]) - 1)
    ELSE IF x[3] # 0 THEN log2_ceil_at(x, 3, bits(x[3]) - 1)
    ELSE IF x[4] # 0 THEN log2_ceil_at(x, 4, bits(x[4]) - 1)
    ELSE 0

(***************************************************************************)
(* TypeBuilder: EnumBuilder and StructBuilder.                             *)
(***************************************************************************)
NoValue == <<>>   \* an enum entry declared without a value (Option::None)

EnumBuilder(name, entries) ==
    [kind |-> "Enum", name |-> name, entries |-> entries, attributes |-> <<>>]
StructBuilder(name, attributes) ==
    [kind |-> "Struct", name |-> name, entries |-> <<>>, attributes |-> attributes]

Entry(name, value) == [name |-> name, value |-> value]
Attribute(name, ty) == [name |-> name, ty |-> ty]

(***************************************************************************)
(* resolve_type: the four grammar rules tried in order.                    *)
(***************************************************************************)
\* u8 subtraction a - b: it overflows when a < b and then wraps.
sub_u8(a, b) == [overflow |-> a < b, v |-> (a - b + 256) % 256]

\* 0xFFFFFFFFFFFFFFFF as u64 >> amount: it overflows when amount >= 64 and
\* then shifts by amount % 64; the result is the number of one-bits left.
shr_ones(amount) == [overflow |-> amount >= 64, ones |-> 64 - (amount % 64)]

Letters ==
    {"a", "b", "c", "d", "e", "f", "g", "h", "i", "j", "k", "l", "m", "n", "o", "p", "q",
     "r", "s", "t", "u", "v", "w", "x", "y", "z", "A", "B", "C", "D", "E", "F", "G", "H",
     "I", "J", "K", "L", "M", "N", "O", "P", "Q", "R", "S", "T", "U", "V", "W", "X", "Y",
     "Z"}
Digits == {"0", "1", "2", "3", "4", "5", "6", "7", "8", "9"}

\* [a-zA-Z][a-zA-Z0-9]* on the whole string s.
identifier(s) ==
    /\ Len(s) >= 1
    /\ SubSeq(s, 1, 1) \in Letters
    /\ \A k \in 2..Len(s) : SubSeq(s, k, k) \in Letters \cup Digits

\* [0-9]* on the whole string s.
all_digits(s) == \A k \in 1..Len(s) : SubSeq(s, k, k) \in Digits

\* ([0-9]*[.])?[0-9]+ on the whole string s.
unsigned_number(s) ==
    \/ Len(s) >= 1 /\ all_digits(s)
    \/ \E p \in 1..(Len(s) - 1) :
          /\ SubSeq(s, p, p) = "."
          /\ all_digits(SubSeq(s, 1, p - 1))
          /\ all_digits(SubSeq(s, p + 1, Len(s)))

\* [+-]?([0-9]*[.])?[0-9]+ on the whole string s.
number(s) ==
    \/ unsigned_number(s)
    \/ Len(s) >= 2 /\ SubSeq(s, 1, 1) \in {"+", "-"} /\ unsigned_number(SubSeq(s, 2, Len(s)))

\* <number..number> on the whole string s.
range_suffix(s) ==
    /\ Len(s) >= 6
    /\ SubSeq(s, 1, 1) = "<"
    /\ SubSeq(s, Len(s), Len(s)) = ">"
    /\ \E p \in 3..(Len(s) - 3) :
          /\ SubSeq(s, p, p + 1) = ".."
          /\ number(SubSeq(s, 2, p - 1))
          /\ number(SubSeq(s, p + 2, Len(s) - 1))

\* The group <type> of array_regex: an identifier, then an optional range.
type_group(s) ==
    \/ identifier(s)
    \/ \E p \in 2..Len(s) :
          identifier(SubSeq(s, 1, p - 1)) /\ range_suffix(SubSeq(s, p, Len(s)))

\* array_regex: the text before "[<len>]" is an identifier with an optional
\* <min..max>, whatever the identifier; "i<n>", "u<n>" and "d<n><min..max>"
\* are of this form, the text of an array is not.  <len> is [0-9]+.
array_regex(d) ==
    /\ d.tag = "arr"
    /\ type_group(d.inner[1].name)
    /\ Len(d.len) >= 1 /\ all_digits(d.len)

\* usize::MAX of a 64-bit target, as text.
UsizeMaxText == "18446744073709551615"

DigitValue(c) == CHOOSE n \in 0..9 : ToString(n) = c

\* The digits of s without the leading zeros (at least one digit is kept).
RECURSIVE significant_digits(_)
significant_digits(s) ==
    IF Len(s) > 1 /\ SubSeq(s, 1, 1) = "0" THEN significant_digits(SubSeq(s, 2, Len(s)))
    ELSE s

\* s > t for two digit strings of the same length, from position k on.
RECURSIVE digits_greater(_, _, _)
digits_greater(s, t, k) ==
    IF k > Len(s) THEN FALSE
    ELSE LET a == DigitValue(SubSeq(s, k, k))
             b == DigitValue(SubSeq(t, k, k))
         IN  IF a # b THEN a > b ELSE digits_greater(s, t, k + 1)

\* The number the digit string s writes is above usize::MAX.
exceeds_usize(s) ==
    LET t == significant_digits(s)
    IN  \/ Len(t) > Len(UsizeMaxText)
        \/ Len(t) = Len(UsizeMaxText) /\ digits_greater(t, UsizeMaxText, 1)

\* The number the first k digits of s write.
RECURSIVE digits_value(_, _)
digits_value(s, k) ==
    IF k = 0 THEN 0
    ELSE 10 * digits_value(s, k - 1) + DigitValue(SubSeq(s, k, k))

\* len.parse::<usize>().unwrap(): Ok(len), or Err("panic") when the number
\* does not fit a usize.
parse_usize(len) ==
    IF exceeds_usize(len) THEN Err("panic") ELSE Ok(digits_value(len, Len(len)))

\* The Some arm of array_regex; len is the Result of the parse, which comes
\* first: the inner type is resolved, and its error returned (the ?
\* operator), only when the length fits.
make_array(len, inner_type) ==
    IF ~len.ok THEN len
    ELSE IF inner_type.ok THEN Ok(TypeArray(len.v[1], inner_type.v[1]))
    ELSE inner_type

\* The decimal rule once min < max: the shift, then the check size <= 64.
\* Ok(type), Err("panic"), or Err("") when the rule returns nothing.
decimal(d) ==
    LET amount == sub_u8(64, d.size)
        shifted == shr_ones(amount.v)
    IN  IF overflow_checks /\ (amount.overflow \/ shifted.overflow) THEN Err("panic")
        ELSE IF d.size <= 64
            THEN Ok(TypePrimitive(Decimal(d.size, d.min,
                                          Scale(d.max - d.min, shifted.ones))))
        ELSE Err("")

\* The loop over defined_types: the first Type::Struct or Type::Enum named
\* type_name; the arm `_ => ()` passes over every other type.
defined_type_mut(defined_types, type_name) ==
    \* a name that is not found is reported as undefined
    LET found == {k \in 1..Len(defined_types) :
                     /\ defined_types[k].kind \in {"Struct", "Enum"}
                     /\ defined_types[k].name = type_name}
    IN  IF found # {}
            THEN Ok(defined_types[CHOOSE k \in found : \A j \in found : k <= j])
            ELSE Err("UndefinedType")

defined_type(defined_types, type_name) ==
    LET found == {k \in 1..Len(defined_types) :
                     /\ defined_types[k].kind \in {"Struct", "Enum"}
                     /\ defined_types[k].name = type_name}
    IN  IF found # {}
            THEN Ok(defined_types[CHOOSE k \in found : \A j \in found : k <= j])
            ELSE Err("InvalidType")

RECURSIVE resolve_type(_, _)
resolve_type(defined_types, d) ==
    IF d.tag = "i" /\ d.size > 0 /\ d.size <= 64
        THEN Ok(TypePrimitive(SignedInt(d.size)))
    ELSE IF d.tag = "u" /\ d.size > 0 /\ d.size <= 64
        THEN Ok(TypePrimitive(UnsignedInt(d.size)))
    ELSE IF d.tag = "d" /\ d.min >= d.max
        THEN Err("InvalidRange")
    ELSE IF d.tag = "d" /\ decimal(d).err # ""
        THEN decimal(d)
    ELSE IF d.tag = "d" /\ decimal(d).ok
        THEN decimal(d)
    ELSE IF array_regex(d)
        THEN make_array(parse_usize(d.len), resolve_type(defined_types, d.inner[1]))
    ELSE defined_type(defined_types, d.name)

(***************************************************************************)
(* topo_sort_type_builders.                                                *)
(***************************************************************************)
is_inplace(attrib_type_name) == resolve_type(<<>>, attrib_type_name).ok

\* The dependencies of one struct: the attributes from index k on.
RECURSIVE dependencies(_, _, _)
dependencies(tbs, attributes, k) ==
    IF k > Len(attributes) THEN Ok(<<>>)
    ELSE LET attrib_type_name == attributes[k].ty
             rest == dependencies(tbs, attributes, k + 1)
         IN  IF is_inplace(attrib_type_name) THEN rest
             ELSE IF resolve_type(<<>>, attrib_type_name).err = "panic" THEN Err("panic")
             ELSE LET opt == Position(tbs, attrib_type_name.name)
                  IN  IF opt = 0 THEN Err("UndefinedType")
                      ELSE IF rest.ok THEN Ok(<<opt>> \o rest.v[1])
                      ELSE rest

adj_list(tbs, node_index) ==
    IF tbs[node_index].kind = "Enum" THEN Ok(<<>>)
    ELSE dependencies(tbs, tbs[node_index].attributes, 1)

\* The first struct (in declaration order) whose adjacency list fails.
RECURSIVE adj_lists(_, _)
adj_lists(tbs, node_index) ==
    IF node_index > Len(tbs) THEN Ok(<<>>)
    ELSE LET adj == adj_list(tbs, node_index)
         IN  IF ~adj.ok THEN adj
             ELSE LET rest == adj_lists(tbs, node_index + 1)
                  IN  IF rest.ok THEN Ok(<<adj.v[1]>> \o rest.v[1]) ELSE rest

\* topo_sort_rec: depth-first, post-order; st = [visited, stack].
RECURSIVE topo_sort_rec(_, _, _)
RECURSIVE topo_sort_adj(_, _, _, _)
topo_sort_adj(graph, st, current, k) ==
    IF k > Len(graph[current]) THEN st
    ELSE LET adj_index == graph[current][k]
             st1 == IF adj_index \in st.visited THEN st
                    ELSE topo_sort_rec(graph, st, adj_index)
         IN  topo_sort_adj(graph, st1, current, k + 1)

topo_sort_rec_mut(graph, st, current) ==
    \* pre-order instead of post-order
    LET st1 == [visited |-> st.visited \cup {current},
                stack |-> Append(st.stack, current)]
    IN  topo_sort_adj(graph, st1, current, 1)

topo_sort_rec(graph, st, current) ==
    LET st1 == [st EXCEPT !.visited = @ \cup {current}]
        st2 == topo_sort_adj(graph, st1, current, 1)
    IN  [st2 EXCEPT !.stack = Append(@, current)]

RECURSIVE topo_sort_from(_, _, _)
topo_sort_from(graph, st, i) ==
    IF i > Len(graph) THEN st
    ELSE topo_sort_from(graph,
                        IF i \in st.visited THEN st ELSE topo_sort_rec(graph, st, i),
                        i + 1)

topo_order(graph) ==
    topo_sort_from(graph, [visited |-> {}, stack |-> <<>>], 1).stack

topo_sort_type_builders(tbs) ==
    LET graph == adj_lists(tbs, 1)
    IN  IF ~graph.ok THEN graph
        ELSE LET stack == topo_order(graph.v[1])
             IN  Ok([k \in 1..Len(stack) |-> tbs[stack[k]]])

(***************************************************************************)
(* build(): type elaboration.                                              *)
(***************************************************************************)
\* The value an entry declared without one gets: Ok(value), or Err("panic")
\* when max_entry += 1 overflows in a build with overflow checks.
implicit_value(entries, max_entry) ==
    IF entries = <<>> THEN Ok(max_entry)
    ELSE IF max_entry # U64Max THEN Ok(add_one(max_entry).v)
    ELSE IF overflow_checks THEN Err("panic")
    ELSE Ok(add_one(max_entry).v)

\* The None arm once max_entry is incremented: v is the Result of it.
push_implicit(acc, entry_name, v) ==
    IF ~v.ok THEN v
    ELSE Ok([entries |-> Append(acc.entries, Entry(entry_name, v.v[1])),
             max_entry |-> v.v[1]])

\* One entry of the loop over enum_data.entries: acc = [entries, max_entry].
enum_entry(acc, e) ==
    IF e.value # NoValue
        THEN Ok([entries |-> Append(acc.entries, Entry(e.name, e.value)),
                 max_entry |-> max_u64(acc.max_entry, e.value)])
    ELSE push_implicit(acc, e.name, implicit_value(acc.entries, acc.max_entry))

\* The loop over enum_data.entries; r is the Result of the entries so far.
RECURSIVE enum_entries(_, _, _)
enum_entries(declared, r, k) ==
    IF ~r.ok \/ k > Len(declared) THEN r
    ELSE enum_entries(declared, enum_entry(r.v[1], declared[k]), k + 1)

\* ((max_entry + 1) as f64).log2().ceil() as u8: Ok(size), or Err("panic")
\* when max_entry + 1 overflows in a build with overflow checks.
enum_size(max_entry) ==
    IF max_entry # U64Max THEN Ok(log2_ceil(add_one(max_entry).v))
    ELSE IF overflow_checks THEN Err("panic")
    ELSE Ok(log2_ceil(add_one(max_entry).v))

\* make_config_ref(Type::Enum {..}); size is the Result of the size.
make_enum(name, size, entries) ==
    IF ~size.ok THEN size ELSE Ok(TypeEnum(name, size.v[1], entries))

\* The enum of the entries; acc is the Result of the loop.
sized_enum(name, acc) ==
    IF ~acc.ok THEN acc
    ELSE make_enum(name, enum_size(acc.v[1].max_entry), acc.v[1].entries)

\* Ok(type) or Err("panic").
build_enum(enum_data) ==
    sized_enum(enum_data.name,
               enum_entries(enum_data.entries,
                            Ok([entries |-> <<>>, max_entry |-> U64(0)]), 1))

RECURSIVE build_attribs(_, _, _)
build_attribs(defined, attributes, k) ==
    IF k > Len(attributes) THEN Ok(<<>>)
    ELSE LET ty == resolve_type(defined, attributes[k].ty)
         IN  IF ~ty.ok THEN ty
             ELSE LET rest == build_attribs(defined, attributes, k + 1)
                  IN  IF rest.ok
                      THEN Ok(<<Attribute(attributes[k].name, ty.v[1])>> \o rest.v[1])
                      ELSE rest

build_struct(defined, struct_data) ==
    LET attribs == build_attribs(defined, struct_data.attributes, 1)
    IN  IF attribs.ok THEN Ok(TypeStruct(struct_data.name, attribs.v[1]))
        ELSE attribs

\* The loop over type_builders, from index k with `defined` elaborated so far.
RECURSIVE build_types(_, _, _)

\* types.push(type_ref) and the rest of the loop; type_ref is a Result.
push_type(tbs, defined, type_ref, k) ==
    IF type_ref.ok THEN build_types(tbs, Append(defined, type_ref.v[1]), k + 1)
    ELSE type_ref

build_types(tbs, defined, k) ==
    IF k > Len(tbs) THEN Ok(defined)
    ELSE push_type(tbs, defined,
                   IF tbs[k].kind = "Enum" THEN build_enum(tbs[k])
                   ELSE build_struct(defined, tbs[k]),
                   k)

(***************************************************************************)
(* Builder-side MessageBuilder, and the protocol prelude of new().         *)
(***************************************************************************)
\* MessageFormat: Signals(raw signals), Types((descriptor, name) pairs), Empty.
FormatSignals(signals) == [kind |-> "Signals", signals |-> signals, fields |-> <<>>]
FormatTypes(fields) == [kind |-> "Types", signals |-> <<>>, fields |-> fields]
FormatEmpty == [kind |-> "Empty", signals |-> <<>>, fields |-> <<>>]

Field(ty, name) == [ty |-> ty, name |-> name]

\* config::Signal: name, bit offset, signal type.
Signal(name, ty, offset) == [name |-> name, ty |-> ty, offset |-> offset]

\* MessageBuilderUsage: External{interval: Option<Duration>} for a message made
\* by create_message, Configuration after __assign_to_configuration.
BuilderExternal(interval) == [kind |-> "External", interval |-> interval]
BuilderConfiguration == [kind |-> "Configuration", interval |-> None]

\* MessageBuilder::new(name, network, expected_interval).
MessageBuilder(name, expected_interval) ==
    [name |-> name, format |-> FormatEmpty, bus |-> None,
     usage |-> BuilderExternal(expected_interval)]

ProtocolMessage(name, fields) ==
    [name |-> name, format |-> FormatTypes(fields), bus |-> None,
     usage |-> BuilderConfiguration]

SuccessError == <<Entry("Success", U64(0)), Entry("Error", U64(1))>>

get_req_name == "get_req"
get_resp_name == "get_resp"
set_req_name == "set_req"
set_resp_name == "set_resp"

ProtocolNames == {get_req_name, get_resp_name, set_req_name, set_resp_name}

RespHeader ==
    <<Attribute("sof", DescU(1)), Attribute("eof", DescU(1)),
      Attribute("toggle", DescU(1)), Attribute("od_index", DescU(13)),
      Attribute("client_id", DescU(8)), Attribute("server_id", DescU(8))>>

\* NetworkData after NetworkBuilder::new().
new_types ==
    <<EnumBuilder("get_resp_erno", SuccessError),
      EnumBuilder("set_resp_erno", SuccessError),
      StructBuilder("get_req_header",
          <<Attribute("od_index", DescU(13)), Attribute("client_id", DescU(8)),
            Attribute("server_id", DescU(8))>>),
      StructBuilder("get_resp_header", RespHeader),
      StructBuilder("set_req_header", RespHeader),
      StructBuilder("set_resp_header",
          <<Attribute("client_id", DescU(8)), Attribute("server_id", DescU(8)),
            Attribute("erno", DescName("set_resp_erno"))>>),
      EnumBuilder("command_resp_erno", SuccessError)>>

new_messages ==
    <<ProtocolMessage(get_req_name, <<Field(DescName("get_req_header"), "header")>>),
      ProtocolMessage(get_resp_name,
          <<Field(DescName("get_resp_header"), "header"), Field(DescU(32), "data")>>),
      ProtocolMessage(set_req_name,
          <<Field(DescName("set_req_header"), "header"), Field(DescU(32), "data")>>),
      ProtocolMessage(set_resp_name, <<Field(DescName("set_resp_header"), "header")>>)>>

(***************************************************************************)
(* build(): the bus list.                                                  *)
(***************************************************************************)
BusBuilder(name, id) == [name |-> name, id |-> id]

\* create_bus: the new bus gets the number of buses declared so far as id.
create_bus(bs, name) == Append(bs, BusBuilder(name, Len(bs)))

ensure_bus_mut(bs) == create_bus(bs, "can0")

\* build(): "ensure that there is always at least one bus defined".
ensure_bus(bs) == IF bs = <<>> THEN create_bus(bs, "can0") ELSE bs

build_buses(bs) == [k \in 1..Len(bs) |-> [id |-> bs[k].id]]

\* buses.iter().find(|bus| bus.id() == id): its index, 0 if there is none.
RECURSIVE bus_position(_, _, _)
bus_position(bus_list, id, k) ==
    IF k > Len(bus_list) THEN 0
    ELSE IF bus_list[k].id = id THEN k
    ELSE bus_position(bus_list, id, k + 1)

(***************************************************************************)
(* build(): signal flattening.                                             *)
(***************************************************************************)
signal_size(signal) == signal.ty.size

\* MessageFormat::Signals: offsets are assigned anew, back to back.
RECURSIVE raw_signals(_, _, _, _)
raw_signals(message_name, declared, offset, k) ==
    IF k > Len(declared) THEN <<>>
    ELSE <<Signal(message_name \o "_" \o declared[k].name, declared[k].ty, offset)>>
         \o raw_signals(message_name, declared, offset + signal_size(declared[k]), k + 1)

\* TypeSignalEncoding: Primitive(name, ty, signal) or Composite(name, attributes, ty).
EncPrimitive(name, ty, signal) ==
    [kind |-> "Primitive", name |-> name, ty |-> ty, signal |-> <<signal>>,
     attributes |-> <<>>]
EncComposite(name, attributes, ty) ==
    [kind |-> "Composite", name |-> name, ty |-> ty, signal |-> <<>>,
     attributes |-> attributes]

\* entries.iter().map(|(_, y)| *y).max().unwrap_or(0)
RECURSIVE max_value(_, _)
max_value(entries, k) ==
    IF k > Len(entries) THEN U64(0)
    ELSE max_u64(entries[k].value, max_value(entries, k + 1))

\* build_attribute, Type::Enum arm: the signal's size is computed from the entries.
enum_signal_size(entries) == log2_ceil(max_value(entries, 1))

\* The offset after a signal has been placed at `offset`.
advance_mut(offset, signal) == signal_size(signal)

advance(offset, signal) == offset + signal_size(signal)

\* build_attribute: acc = [ok, enc, offset, signals]; ok = FALSE is the todo!()
\* of the Type::Array arm.
RECURSIVE build_attribute(_, _, _, _, _)
RECURSIVE build_struct_attributes(_, _, _, _, _)
build_struct_attributes(attribs, k, offset, prefix, signals) ==
    IF k > Len(attribs) THEN [ok |-> TRUE, enc |-> <<>>, offset |-> offset, signals |-> signals]
    ELSE LET a == build_attribute(attribs[k].ty, attribs[k].name, offset, prefix, signals)
         IN  IF ~a.ok THEN a
             ELSE LET rest == build_struct_attributes(attribs, k + 1, a.offset, prefix, a.signals)
                  IN  IF ~rest.ok THEN rest
                      ELSE [rest EXCEPT !.enc = <<a.enc>> \o @]

build_attribute(ty, name, offset, prefix, signals) ==
    IF ty.kind = "Primitive" THEN
        LET signal == Signal(prefix \o "_" \o name, ty.st, offset)
        IN  [ok |-> TRUE, enc |-> EncPrimitive(name, ty, signal),
             offset |-> advance(offset, signal), signals |-> Append(signals, signal)]
    ELSE IF ty.kind = "Struct" THEN
        LET r == build_struct_attributes(ty.attribs, 1, offset,
                                         prefix \o "_" \o ty.name, signals)
        IN  IF ~r.ok THEN r
            ELSE [r EXCEPT !.enc = EncComposite(name, r.enc, ty)]
    ELSE IF ty.kind = "Enum" THEN
        LET signal == Signal(prefix \o "_" \o ty.name,
                             UnsignedInt(enum_signal_size(ty.entries)), offset)
        IN  [ok |-> TRUE, enc |-> EncPrimitive(name, ty, signal),
             offset |-> advance(offset, signal), signals |-> Append(signals, signal)]
    ELSE [ok |-> FALSE, enc |-> <<>>, offset |-> offset, signals |-> signals]

\* MessageFormat::Types: the loop over the (descriptor, name) pairs.
\* Returns Ok([signals, attributes]), Err(kind) of resolve_type, or Err("panic").
RECURSIVE typed_format(_, _, _, _, _, _)
typed_format(defined, fields, k, offset, signals, attributes) ==
    IF k > Len(fields) THEN Ok([signals |-> signals, attributes |-> attributes])
    ELSE LET type_ref == resolve_type(defined, fields[k].ty)
         IN  IF ~type_ref.ok THEN type_ref
             ELSE LET a == build_attribute(type_ref.v[1], fields[k].name, offset,
                                           "value_name", signals)
                  IN  IF ~a.ok THEN Err("panic")
                      ELSE typed_format(defined, fields, k + 1, a.offset, a.signals,
                                        Append(attributes, a.enc))

\* Signal::byte_offset(): the signal's offset in the payload, in bits.
byte_offset(signal) == signal.offset

RECURSIVE max_bit(_, _)
max_bit(signals, k) ==
    IF k > Len(signals) THEN 0
    ELSE Max2(byte_offset(signals[k]) + signal_size(signals[k]), max_bit(signals, k + 1))

\* ((max_bit + 8 - 1) / 8) as u8
dlc_of(signals) == ((max_bit(signals, 1) + 8 - 1) \div 8) % 256

\* MessageUsage.
Usage(kind, node, index, interval) ==
    [kind |-> kind, node |-> node, index |-> index, interval |-> interval]

\* config::Message: usage is a OnceCell, `writes` counts the writes to it.
Message(name, encoding, signals, dlc, bus) ==
    [name |-> name, encoding |-> encoding, signals |-> signals, dlc |-> dlc,
     bus |-> bus, usage |-> None, writes |-> 0]

\* The body of the loop over the message builders, for one message.
build_message(defined, bus_list, message_data) ==
    LET format == message_data.format
        flat == IF format.kind = "Signals"
                    THEN Ok([signals |-> raw_signals(message_data.name, format.signals, 0, 1),
                             attributes |-> <<>>])
                ELSE IF format.kind = "Types"
                    THEN typed_format(defined, format.fields, 1, 0, <<>>, <<>>)
                ELSE Ok([signals |-> <<>>, attributes |-> <<>>])
        bus == IF message_data.bus = None THEN 0
               ELSE bus_position(bus_list, message_data.bus[1], 1)
    IN  IF ~flat.ok THEN flat
        ELSE IF bus = 0 THEN Err("panic")
        ELSE Ok(Message(message_data.name,
                        IF format.kind = "Types" THEN Some(flat.v[1].attributes) ELSE None,
                        flat.v[1].signals, dlc_of(flat.v[1].signals), bus_list[bus].id))

RECURSIVE build_messages(_, _, _, _)
build_messages(defined, bus_list, builders, k) ==
    IF k > Len(builders) THEN Ok(<<>>)
    ELSE LET m == build_message(defined, bus_list, builders[k])
         IN  IF ~m.ok THEN m
             ELSE LET rest == build_messages(defined, bus_list, builders, k + 1)
                  IN  IF rest.ok THEN Ok(<<m.v[1]>> \o rest.v[1]) ELSE rest

(***************************************************************************)
(* build(): usage tagging.                                                 *)
(***************************************************************************)
\* Message::__set_usage: the usage cell is written once; a second write is a
\* fault.  Returns Ok(messages) or Err("panic").
set_usage(msgs, index, usage) ==
    IF msgs[index].usage # None THEN Err("panic")
    ELSE Ok([msgs EXCEPT ![index].usage = Some(usage), ![index].writes = @ + 1])

\* find by name + unwrap, then __set_usage; `r` is the Result so far.
tag_by_name(r, name, usage) ==
    IF ~r.ok THEN r
    ELSE LET index == Position(r.v[1], name)
         IN  IF index = 0 THEN Err("panic") ELSE set_usage(r.v[1], index, usage)

protocol_usage_mut(msgs) ==
    \* get_req is tagged as the response and get_resp as the request
    tag_by_name(tag_by_name(tag_by_name(tag_by_name(Ok(msgs),
        get_resp_name, Usage("GetReq", 0, 0, None)),
        get_req_name, Usage("GetResp", 0, 0, None)),
        set_resp_name, Usage("SetResp", 0, 0, None)),
        set_req_name, Usage("SetReq", 0, 0, None))

protocol_usage(msgs) ==
    tag_by_name(tag_by_name(tag_by_name(tag_by_name(Ok(msgs),
        get_resp_name, Usage("GetResp", 0, 0, None)),
        get_req_name, Usage("GetReq", 0, 0, None)),
        set_resp_name, Usage("SetResp", 0, 0, None)),
        set_req_name, Usage("SetReq", 0, 0, None))

(***************************************************************************)
(* build(): one node (the body of the first loop over the node builders).  *)
(***************************************************************************)
NodeBuilder(name) ==
    [name |-> name, rx_messages |-> <<>>, tx_messages |-> <<>>, commands |-> <<>>,
     extern_commands |-> <<>>, object_entries |-> <<>>, tx_streams |-> <<>>,
     rx_streams |-> <<>>, buses |-> <<>>]

CommandBuilder(name, call_message, resp_message) ==
    [name |-> name, call_message |-> call_message, resp_message |-> resp_message]
ObjectEntryBuilder(name, ty) == [name |-> name, ty |-> ty]
StreamBuilder(name, message, object_entries) ==
    [name |-> name, message |-> message, object_entries |-> object_entries]
ReceiveStreamBuilder(tx_node, stream, rx_node, object_entries) ==
    [tx_node |-> tx_node, stream |-> stream, rx_node |-> rx_node,
     object_entries |-> object_entries]
Pair(pos, oe) == [pos |-> pos, oe |-> oe]

Command(name, tx_message, rx_message) ==
    [name |-> name, tx_message |-> tx_message, rx_message |-> rx_message]
\* config::ObjectEntry; its node is a cell that is empty until build() sets it.
ObjectEntry(name, id, ty) == [name |-> name, id |-> id, ty |-> ty, node |-> None]
Stream(name, mapping, message) == [name |-> name, mapping |-> mapping, message |-> message]

RECURSIVE PositionEq(_, _, _)
PositionEq(seq, x, k) ==
    IF k > Len(seq) THEN 0
    ELSE IF seq[k] = x THEN k
    ELSE PositionEq(seq, x, k + 1)

Contains(seq, x) == PositionEq(seq, x, 1) > 0

PushNew(seq, x) == IF Contains(seq, x) THEN seq ELSE Append(seq, x)

\* rec_type_acc: Ok(node_types) or Err("panic").
RECURSIVE rec_type_acc(_, _)
RECURSIVE rec_type_acc_all(_, _, _)
rec_type_acc_all(r, attributes, k) ==
    IF ~r.ok \/ k > Len(attributes) THEN r
    ELSE rec_type_acc_all(rec_type_acc(r.v[1], attributes[k]), attributes, k + 1)

rec_type_acc(node_types, encoding) ==
    IF encoding.kind = "Composite"
        THEN rec_type_acc_all(Ok(PushNew(node_types, encoding.ty)), encoding.attributes, 1)
    ELSE IF encoding.ty.kind = "Primitive" THEN Ok(node_types)
    ELSE IF encoding.ty.kind = "Enum" THEN Ok(PushNew(node_types, encoding.ty))
    ELSE Err("panic")

rec_add_type_mut(node_types, ty) ==
    \* the attributes of a struct are not walked
    IF ty.kind = "Primitive" THEN Ok(node_types)
    ELSE IF ty.kind \in {"Struct", "Enum"} THEN Ok(PushNew(node_types, ty))
    ELSE Err("panic")

\* rec_add_type: Ok(node_types) or Err("panic") (the todo!() of Type::Array).
RECURSIVE rec_add_type(_, _)
RECURSIVE rec_add_type_all(_, _, _)
rec_add_type_all(r, attribs, k) ==
    IF ~r.ok \/ k > Len(attribs) THEN r
    ELSE rec_add_type_all(rec_add_type(r.v[1], attribs[k].ty), attribs, k + 1)

rec_add_type(node_types, ty) ==
    IF ty.kind = "Primitive" THEN Ok(node_types)
    ELSE IF ty.kind = "Struct"
        THEN rec_add_type_all(Ok(PushNew(node_types, ty)), ty.attribs, 1)
    ELSE IF ty.kind = "Enum" THEN Ok(PushNew(node_types, ty))
    ELSE Err("panic")

\* topo_sort_types: the adjacency list of types[i].
RECURSIVE attrib_adj(_, _, _)
attrib_adj(tys, attribs, k) ==
    IF k > Len(attribs) THEN <<>>
    ELSE LET adj == PositionEq(tys, attribs[k].ty, 1)
         IN  (IF adj > 0 THEN <<adj>> ELSE <<>>) \o attrib_adj(tys, attribs, k + 1)

type_adj_list(tys, i) ==
    IF tys[i].kind = "Struct" THEN attrib_adj(tys, tys[i].attribs, 1)
    ELSE IF tys[i].kind = "Array"
        THEN LET adj == PositionEq(tys, tys[i].ty[1], 1)
             IN  IF adj > 0 THEN <<adj>> ELSE <<>>
    ELSE <<>>

topo_sort_types(tys) ==
    LET stack == topo_order([i \in 1..Len(tys) |-> type_adj_list(tys, i)])
    IN  [k \in 1..Len(stack) |-> tys[stack[k]]]

\* The state of one iteration of the node loop: the messages (whose usage
\* cells are written), and the node's lists built so far.
NodeState(msgs) ==
    [msgs |-> msgs, rx |-> <<>>, tx |-> <<>>, node_types |-> <<>>, commands |-> <<>>,
     object_entries |-> <<>>, tx_streams |-> <<>>, buses |-> <<>>]

\* The types of a message's encoding tree are added to node_types.
message_types(node_types, message) ==
    IF message.encoding = None THEN Ok(node_types)
    ELSE rec_type_acc_all(Ok(node_types), message.encoding[1], 1)

\* One rx (dir = "rx") or tx (dir = "tx") message of the node, found by name.
link_message(st, name, dir) ==
    LET index == Position(st.msgs, name)
    IN  IF index = 0 THEN Err("panic")
        ELSE LET acc == message_types(st.node_types, st.msgs[index])
             IN  IF ~acc.ok THEN acc
                 ELSE Ok([st EXCEPT !.node_types = acc.v[1], ![dir] = Append(@, index)])

RECURSIVE link_messages(_, _, _, _)
link_messages(r, names, dir, k) ==
    IF ~r.ok \/ k > Len(names) THEN r
    ELSE link_messages(link_message(r.v[1], names[k], dir), names, dir, k + 1)

tag_command_mut(msgs, command, usage_index) ==
    \* only the response message is tagged
    set_usage(msgs, command.rx_message,
              Usage("CommandResp", usage_index[1], usage_index[2], None))

\* rx_message.__set_usage(CommandResp), then tx_message.__set_usage(CommandReq).
tag_command(msgs, command, usage_index) ==
    LET first == set_usage(msgs, command.rx_message,
                           Usage("CommandResp", usage_index[1], usage_index[2], None))
    IN  IF ~first.ok THEN first
        ELSE set_usage(first.v[1], command.tx_message,
                       Usage("CommandReq", usage_index[1], usage_index[2], None))

\* One command of the node; it is command number k of node number node_id.
link_command(st, command_data, node_id, k) ==
    LET command == Command(command_data.name,
                           Position(st.msgs, command_data.call_message),
                           Position(st.msgs, command_data.resp_message))
    IN  IF command.tx_message = 0 \/ command.rx_message = 0 THEN Err("panic")
        ELSE LET tagged == tag_command(st.msgs, command, <<node_id, k>>)
             IN  IF ~tagged.ok THEN tagged
                 ELSE Ok([st EXCEPT !.msgs = tagged.v[1],
                                    !.commands = Append(@, command)])

RECURSIVE link_commands(_, _, _, _)
link_commands(r, builders, node_id, k) ==
    IF ~r.ok \/ k > Len(builders) THEN r
    ELSE link_commands(link_command(r.v[1], builders[k], node_id, k),
                       builders, node_id, k + 1)

\* The id of the next object entry: id_acc.
next_id_mut(object_entries) == Len(object_entries) + 1

next_id(object_entries) == Len(object_entries)

\* One object entry of the node.
link_object_entry(st, ty, object_entry_data) ==
    IF ~ty.ok THEN ty
    ELSE LET acc == rec_add_type(st.node_types, ty.v[1])
         IN  IF ~acc.ok THEN acc
             ELSE Ok([st EXCEPT
                      !.node_types = acc.v[1],
                      !.object_entries = Append(@, ObjectEntry(object_entry_data.name,
                                                               next_id(@), ty.v[1]))])

RECURSIVE link_object_entries(_, _, _, _)
link_object_entries(r, defined, builders, k) ==
    IF ~r.ok \/ k > Len(builders) THEN r
    ELSE link_object_entries(
             link_object_entry(r.v[1], resolve_type(defined, builders[k].ty), builders[k]),
             defined, builders, k + 1)

tx_mappings_mut(acc, object_entries, names, k) ==
    \* every entry is put in front of the mapping instead of behind it
    Ok([i \in 1..Len(names) |->
           Some(object_entries[Position(object_entries, names[Len(names) + 1 - i])])])

\* A tx stream's mapping: every declared entry, resolved by name among the
\* node's own object entries; acc is the Result of the mapping so far.
RECURSIVE tx_mappings(_, _, _, _)
tx_mappings(acc, object_entries, names, k) ==
    IF ~acc.ok \/ k > Len(names) THEN acc
    ELSE tx_mappings(
             IF Position(object_entries, names[k]) = 0 THEN Err("panic")
             ELSE Ok(Append(acc.v[1],
                            Some(object_entries[Position(object_entries, names[k])]))),
             object_entries, names, k + 1)

\* One tx stream of the node; it is stream number k of node number node_id.
link_tx_stream(st, mappings, stream_data, usage_index) ==
    LET message == Position(st.msgs, stream_data.message)
    IN  IF message = 0 THEN Err("panic")
        ELSE IF ~mappings.ok THEN mappings
        ELSE LET tagged == set_usage(st.msgs, message,
                               Usage("Stream", usage_index[1], usage_index[2], None))
             IN  IF ~tagged.ok THEN tagged
                 ELSE Ok([st EXCEPT
                          !.msgs = tagged.v[1],
                          !.tx_streams = Append(@, Stream(stream_data.name,
                                                          mappings.v[1], message))])

RECURSIVE link_tx_streams(_, _, _, _)
link_tx_streams(r, builders, node_id, k) ==
    IF ~r.ok \/ k > Len(builders) THEN r
    ELSE link_tx_streams(
             link_tx_stream(r.v[1],
                            tx_mappings(Ok(<<>>), r.v[1].object_entries,
                                        builders[k].object_entries, 1),
                            builders[k], <<node_id, k>>),
             builders, node_id, k + 1)

\* The node's buses, found by id.
RECURSIVE link_buses(_, _, _, _)
link_buses(r, bus_list, ids, k) ==
    IF ~r.ok \/ k > Len(ids) THEN r
    ELSE link_buses(
             IF bus_position(bus_list, ids[k], 1) = 0 THEN Err("panic")
             ELSE Ok([r.v[1] EXCEPT !.buses =
                         Append(@, bus_list[bus_position(bus_list, ids[k], 1)])]),
             bus_list, ids, k + 1)

\* Node::new: extern commands and rx streams start empty.
Node(name, id, st) ==
    [name |-> name, id |-> id, types |-> topo_sort_types(st.node_types),
     commands |-> st.commands, extern_commands |-> <<>>,
     tx_streams |-> st.tx_streams, rx_streams |-> <<>>,
     rx_messages |-> st.rx, tx_messages |-> st.tx,
     object_entries |-> st.object_entries, buses |-> st.buses]

\* nodes.len() as u16: the cast keeps the low 16 bits.
as_u16(n) == n % Pow2(16)

push_node_mut(r, node_data, node_id) ==
    \* the extern commands are resolved when the node is made, against itself
    IF ~r.ok THEN r
    ELSE Ok([msgs |-> r.v[1].msgs,
             node |-> [Node(node_data.name, as_u16(node_id), r.v[1]) EXCEPT
                          !.extern_commands =
                              [k \in 1..Len(node_data.extern_commands) |->
                                  [node |-> node_data.name,
                                   command |-> Command(node_data.extern_commands[k].name, 0, 0)]]]])

\* nodes.push(Node::new(..)): the messages and the node, whose id is
\* node_id = nodes.len() cast to u16.
push_node(r, node_data, node_id) ==
    IF ~r.ok THEN r
    ELSE Ok([msgs |-> r.v[1].msgs,
             node |-> Node(node_data.name, as_u16(node_id), r.v[1])])

\* Ok([msgs, node]), Err(kind) or Err("panic"); node_id = nodes.len().
build_node(defined, bus_list, msgs, node_data, node_id) ==
    push_node(
      link_buses(
        link_tx_streams(
          link_object_entries(
            link_commands(
              link_messages(
                link_messages(Ok(NodeState(msgs)), node_data.rx_messages, "rx", 1),
                node_data.tx_messages, "tx", 1),
              node_data.commands, node_id, 1),
            defined, node_data.object_entries, 1),
          node_data.tx_streams, node_id, 1),
        bus_list, node_data.buses, 1),
      node_data, node_id)

(***************************************************************************)
(* build(): cross-node linking (extern commands, rx streams).              *)
(***************************************************************************)
\* The scan of one other node's commands for the request message name.
RECURSIVE find_command(_, _, _, _)
find_command(msgs, commands, call_message, k) ==
    IF k > Len(commands) THEN 0
    ELSE IF msgs[commands[k].tx_message].name = call_message THEN k
    ELSE find_command(msgs, commands, call_message, k + 1)

RECURSIVE find_extern_mut(_, _, _, _, _)
find_extern_mut(msgs, built, i, call_message, j) ==
    \* the node's own commands are scanned too
    IF j > Len(built) THEN None
    ELSE LET c == find_command(msgs, built[j].commands, call_message, 1)
         IN  IF c > 0 THEN Some([node |-> built[j].name, command |-> built[j].commands[c]])
             ELSE find_extern_mut(msgs, built, i, call_message, j + 1)

\* 'outer: the scan over the nodes j # i; None or Some((owner name, command)).
RECURSIVE find_extern(_, _, _, _, _)
find_extern(msgs, built, i, call_message, j) ==
    IF j > Len(built) THEN None
    ELSE IF i = j THEN find_extern(msgs, built, i, call_message, j + 1)
    ELSE LET c == find_command(msgs, built[j].commands, call_message, 1)
         IN  IF c > 0 THEN Some([node |-> built[j].name, command |-> built[j].commands[c]])
             ELSE find_extern(msgs, built, i, call_message, j + 1)

RECURSIVE link_extern_commands(_, _, _, _, _)
link_extern_commands(msgs, built, i, declared, k) ==
    IF k > Len(declared) THEN <<>>
    ELSE find_extern(msgs, built, i, declared[k].call_message, 1)
         \o link_extern_commands(msgs, built, i, declared, k + 1)

\* Vec::sort_by on the position: stable, ascending.
RECURSIVE insert_sorted(_, _)
insert_sorted(sorted, p) ==
    IF sorted = <<>> THEN <<p>>
    ELSE IF sorted[Len(sorted)].pos <= p.pos THEN Append(sorted, p)
    ELSE Append(insert_sorted(SubSeq(sorted, 1, Len(sorted) - 1), p), sorted[Len(sorted)])

RECURSIVE sort_by_position(_, _)
sort_by_position(pairs, k) ==
    IF k = 0 THEN <<>>
    ELSE insert_sorted(sort_by_position(pairs, k - 1), pairs[k])

\* The number of slots of the rx mapping: oe_count.
oe_count_of(builder_mapping, tx_stream) == Len(builder_mapping)

\* The loop `for i in 0..oe_count` with the cursor j into the sorted pairs.
RECURSIVE rx_mappings(_, _, _, _, _)
rx_mappings(builder_mapping, object_entries, oe_count, i, j) ==
    IF i >= oe_count THEN Ok(<<>>)
    ELSE IF j + 1 > Len(builder_mapping) THEN Err("panic")
    ELSE IF builder_mapping[j + 1].pos = i THEN
        LET oe == Position(object_entries, builder_mapping[j + 1].oe)
            rest == rx_mappings(builder_mapping, object_entries, oe_count, i + 1, j + 1)
        IN  IF oe = 0 THEN Err("panic")
            ELSE IF ~rest.ok THEN rest
            ELSE Ok(<<Some(object_entries[oe])>> \o rest.v[1])
    ELSE LET rest == rx_mappings(builder_mapping, object_entries, oe_count, i + 1, j)
         IN  IF ~rest.ok THEN rest ELSE Ok(<<None>> \o rest.v[1])

build_rx_stream_mut(built, rx_stream_data) ==
    \* the entries are looked up in the publisher instead of the subscriber
    LET tx_node == Position(built, rx_stream_data.tx_node)
        tx_stream == IF tx_node = 0 THEN 0
                     ELSE Position(built[tx_node].tx_streams, rx_stream_data.stream)
    IN  IF tx_node = 0 \/ tx_stream = 0 THEN Err("panic")
        ELSE LET stream == built[tx_node].tx_streams[tx_stream]
                 builder_mapping == sort_by_position(rx_stream_data.object_entries,
                                                     Len(rx_stream_data.object_entries))
                 mappings == rx_mappings(builder_mapping, built[tx_node].object_entries,
                                         oe_count_of(builder_mapping, stream), 0, 0)
             IN  IF ~mappings.ok THEN mappings
                 ELSE Ok(Stream(stream.name, mappings.v[1], stream.message))

\* One rx stream of a node: Ok(stream) or Err("panic").
build_rx_stream(built, rx_stream_data) ==
    LET tx_node == Position(built, rx_stream_data.tx_node)
        tx_stream == IF tx_node = 0 THEN 0
                     ELSE Position(built[tx_node].tx_streams, rx_stream_data.stream)
        rx_node == Position(built, rx_stream_data.rx_node)
    IN  IF tx_node = 0 \/ tx_stream = 0 \/ rx_node = 0 THEN Err("panic")
        ELSE LET stream == built[tx_node].tx_streams[tx_stream]
                 builder_mapping == sort_by_position(rx_stream_data.object_entries,
                                                     Len(rx_stream_data.object_entries))
                 mappings == rx_mappings(builder_mapping, built[rx_node].object_entries,
                                         oe_count_of(builder_mapping, stream), 0, 0)
             IN  IF ~mappings.ok THEN mappings
                 ELSE Ok(Stream(stream.name, mappings.v[1], stream.message))

RECURSIVE link_rx_streams(_, _, _)
link_rx_streams(built, declared, k) ==
    IF k > Len(declared) THEN Ok(<<>>)
    ELSE LET s == build_rx_stream(built, declared[k])
         IN  IF ~s.ok THEN s
             ELSE LET rest == link_rx_streams(built, declared, k + 1)
                  IN  IF ~rest.ok THEN rest ELSE Ok(<<s.v[1]>> \o rest.v[1])

\* The body of the second loop over the nodes, for node i: Ok(nodes) or Err.
cross_link(msgs, built, node_data, i) ==
    LET ext == link_extern_commands(msgs, built, i, node_data.extern_commands, 1)
        rxs == link_rx_streams(built, node_data.rx_streams, 1)
    IN  IF ~rxs.ok THEN rxs
        ELSE Ok([built EXCEPT ![i].extern_commands = @ \o ext,
                              ![i].rx_streams = @ \o rxs.v[1]])

(***************************************************************************)
(* build(): usage backfill.                                                *)
(***************************************************************************)
DefaultInterval == 60   \* Duration::from_secs(60)

\* interval.unwrap_or(Duration::from_secs(60))
external_interval_mut(declared) == DefaultInterval

external_interval(declared) == IF declared = None THEN DefaultInterval ELSE declared[1]

\* Whether the backfill writes the usage of `message`.
needs_backfill_mut(message) == message.name \notin ProtocolNames

needs_backfill(message) == message.usage = None

RECURSIVE backfill(_, _, _)
backfill(r, builders, k) ==
    IF ~r.ok \/ k > Len(r.v[1]) THEN r
    ELSE IF ~needs_backfill(r.v[1][k]) THEN backfill(r, builders, k + 1)
    ELSE LET b == Position(builders, r.v[1][k].name)
         IN  IF b = 0 \/ builders[b].usage.kind # "External" THEN Err("panic")
             ELSE backfill(
                      Ok([r.v[1] EXCEPT
                          ![k].usage = Some(Usage("External", 0, 0,
                                            external_interval(builders[b].usage.interval))),
                          ![k].writes = @ + 1]),
                      builders, k + 1)

(***************************************************************************)
(* The steps of build().                                                   *)
(***************************************************************************)
Fail(kind) == /\ result' = kind
              /\ pc' = "done"

\* build(): the bus list (a default bus is made when none was declared).
BuildBuses ==
    /\ pc = "decl"
    /\ buses' = ensure_bus(buses)
    /\ net_buses' = build_buses(buses')
    /\ pc' = "types"
    /\ UNCHANGED <<types, messages, nodes, result, overflow_checks, type_builders, net_types,
                   net_messages, net_nodes, node_i>>

\* build(): topo_sort_type_builders, then the elaboration loop.
BuildTypes ==
    /\ pc = "types"
    /\ LET sorted == topo_sort_type_builders(types)
           defined == IF sorted.ok THEN build_types(sorted.v[1], <<>>, 1) ELSE sorted
       IN  IF defined.ok
           THEN /\ type_builders' = sorted.v[1]
                /\ net_types' = defined.v[1]
                /\ pc' = "ids"
                /\ UNCHANGED result
           ELSE /\ Fail(defined.err)
                /\ UNCHANGED <<type_builders, net_types>>
    /\ UNCHANGED <<builder_vars, overflow_checks, net_buses, net_messages, net_nodes, node_i>>

\* resolve_ids_filters_and_buses: afterwards every message builder has a bus;
\* a message declared without one gets one of the declared buses.
ResolveIdsFiltersAndBuses ==
    /\ pc = "ids"
    /\ \E assign \in [1..Len(messages) -> 1..Len(buses)] :
         messages' = [k \in 1..Len(messages) |->
                         IF messages[k].bus = None
                         THEN [messages[k] EXCEPT !.bus = Some(buses[assign[k]].id)]
                         ELSE messages[k]]
    /\ pc' = "messages"
    /\ UNCHANGED <<buses, types, nodes, result, overflow_checks, net_buses, type_builders, net_types,
                   net_messages, net_nodes, node_i>>

\* build(): the loop over the message builders.
BuildMessages ==
    /\ pc = "messages"
    /\ LET built == build_messages(net_types, net_buses, messages, 1)
       IN  IF built.ok
           THEN /\ net_messages' = built.v[1]
                /\ pc' = "protocol"
                /\ UNCHANGED result
           ELSE /\ Fail(built.err)
                /\ UNCHANGED net_messages
    /\ UNCHANGED <<builder_vars, overflow_checks, net_buses, type_builders, net_types, net_nodes, node_i>>

\* build(): the four protocol messages get their usage.
TagProtocol ==
    /\ pc = "protocol"
    /\ LET tagged == protocol_usage(net_messages)
       IN  IF tagged.ok
           THEN /\ net_messages' = tagged.v[1]
                /\ pc' = "nodes"
                /\ UNCHANGED result
           ELSE /\ Fail(tagged.err)
                /\ UNCHANGED net_messages
    /\ UNCHANGED <<builder_vars, overflow_checks, net_buses, type_builders, net_types, net_nodes, node_i>>

\* build(): one iteration of the first loop over the nodes, or its end.
BuildNode ==
    /\ pc = "nodes"
    /\ IF node_i > Len(nodes)
       THEN /\ pc' = "cross"
            /\ node_i' = 1
            /\ UNCHANGED <<result, net_messages, net_nodes>>
       ELSE LET built == build_node(net_types, net_buses, net_messages, nodes[node_i],
                                    Len(net_nodes))
            IN  IF built.ok
                THEN /\ net_messages' = built.v[1].msgs
                     /\ net_nodes' = Append(net_nodes, built.v[1].node)
                     /\ node_i' = node_i + 1
                     /\ UNCHANGED <<pc, result>>
                ELSE /\ Fail(built.err)
                     /\ UNCHANGED <<net_messages, net_nodes, node_i>>
    /\ UNCHANGED <<builder_vars, overflow_checks, net_buses, type_builders, net_types>>

\* build(): one iteration of the second loop over the nodes, or its end.
CrossLink ==
    /\ pc = "cross"
    /\ IF node_i > Len(nodes)
       THEN /\ pc' = "finish"
            /\ UNCHANGED <<result, net_nodes, node_i>>
       ELSE LET linked == cross_link(net_messages, net_nodes, nodes[node_i], node_i)
            IN  IF linked.ok
                THEN /\ net_nodes' = linked.v[1]
                     /\ node_i' = node_i + 1
                     /\ UNCHANGED <<pc, result>>
                ELSE /\ Fail(linked.err)
                     /\ UNCHANGED <<net_nodes, node_i>>
    /\ UNCHANGED <<builder_vars, overflow_checks, net_buses, type_builders, net_types, net_messages>>

\* oe.__set_node(node) as it shows in a slot of a stream mapping, which
\* shares the object entry with the node named node_name.
set_node(slot, node_name) ==
    IF slot = None THEN None ELSE Some([slot[1] EXCEPT !.node = Some(node_name)])

\* The loop that sets the node of all object entries.  The entries in the
\* mapping of a tx stream are the node's own; those in the mapping of an rx
\* stream are the entries of the node its builder names as rx_node.
set_nodes(built, builders) ==
    [n \in 1..Len(built) |->
        [built[n] EXCEPT
            !.object_entries =
                [k \in 1..Len(@) |-> [@[k] EXCEPT !.node = Some(built[n].name)]],
            !.tx_streams =
                [s \in 1..Len(@) |->
                    [@[s] EXCEPT !.mapping =
                        [p \in 1..Len(@) |-> set_node(@[p], built[n].name)]]],
            !.rx_streams =
                [s \in 1..Len(@) |->
                    [@[s] EXCEPT !.mapping =
                        [p \in 1..Len(@) |->
                            set_node(@[p], builders[n].rx_streams[s].rx_node)]]]]]

\* build(): the nodes of the object entries are set, then the usage
\* backfill, and the Network is returned.
Finish ==
    /\ pc = "finish"
    /\ net_nodes' = set_nodes(net_nodes, nodes)
    /\ LET filled == backfill(Ok(net_messages), messages, 1)
       IN  IF filled.ok
           THEN /\ net_messages' = filled.v[1]
                /\ result' = "Ok"
                /\ pc' = "done"
           ELSE /\ Fail(filled.err)
                /\ UNCHANGED net_messages
    /\ UNCHANGED <<builder_vars, overflow_checks, net_buses, type_builders, net_types, node_i>>

\* The state of build() before it has run.
NotBuilt ==
    /\ pc = "decl"
    /\ result = "none"
    /\ net_buses = <<>>
    /\ type_builders = <<>>
    /\ net_types = <<>>
    /\ net_messages = <<>>
    /\ net_nodes = <<>>
    /\ node_i = 1

\* NetworkBuilder::new().
New ==
    /\ buses = <<>>
    /\ types = new_types
    /\ messages = new_messages
    /\ nodes = <<>>
    /\ NotBuilt
    /\ overflow_checks = TRUE   \* nothing overflows in this scenario

(***************************************************************************)
(* Declaration calls on the builder (before build()).                      *)
(***************************************************************************)
\* define_enum(name)
DefineEnum(name) ==
    /\ pc = "decl"
    /\ types' = Append(types, EnumBuilder(name, <<>>))
    /\ UNCHANGED <<buses, messages, nodes, build_vars, overflow_checks>>

\* define_struct(name)
DefineStruct(name) ==
    /\ pc = "decl"
    /\ types' = Append(types, StructBuilder(name, <<>>))
    /\ UNCHANGED <<buses, messages, nodes, build_vars, overflow_checks>>

\* EnumBuilder::add_entry(name, value) on the declared type t.
AddEntry(t, value) ==
    /\ pc = "decl"
    /\ types[t].kind = "Enum"
    /\ Len(types[t].entries) < MaxEntries
    /\ types' = [types EXCEPT ![t].entries =
                    Append(@, Entry("e" \o ToString(Len(@)), value))]
    /\ UNCHANGED <<buses, messages, nodes, build_vars, overflow_checks>>

\* StructBuilder::add_attribute(name, type descriptor) on the declared type t.
AddAttribute(t, desc) ==
    /\ pc = "decl"
    /\ types[t].kind = "Struct"
    /\ Len(types[t].attributes) < MaxAttribs
    /\ types' = [types EXCEPT ![t].attributes =
                    Append(@, Attribute("a" \o ToString(Len(@)), desc))]
    /\ UNCHANGED <<buses, messages, nodes, build_vars, overflow_checks>>

\* create_message(name, expected_interval)
CreateMessage(name, expected_interval) ==
    /\ pc = "decl"
    /\ messages' = Append(messages, MessageBuilder(name, expected_interval))
    /\ UNCHANGED <<buses, types, nodes, build_vars, overflow_checks>>

\* MessageBuilder::make_signal_format() and add_signal on the message m: the
\* caller's signal has a size and an offset of the caller's choice.
AddSignal(m, size, offset) ==
    /\ pc = "decl"
    /\ messages[m].format.kind \in {"Empty", "Signals"}
    /\ Len(messages[m].format.signals) < MaxRawSignals
    /\ messages' = [messages EXCEPT ![m].format =
                       FormatSignals(Append(@.signals,
                           Signal("s" \o ToString(Len(@.signals)), UnsignedInt(size), offset)))]
    /\ UNCHANGED <<buses, types, nodes, build_vars, overflow_checks>>

\* MessageBuilder::make_type_format() and add_type(descriptor, name) on m.
AddType(m, desc) ==
    /\ pc = "decl"
    /\ messages[m].format.kind \in {"Empty", "Types"}
    /\ Len(messages[m].format.fields) < MaxFields
    /\ messages' = [messages EXCEPT ![m].format =
                       FormatTypes(Append(@.fields,
                           Field(desc, "f" \o ToString(Len(@.fields)))))]
    /\ UNCHANGED <<buses, types, nodes, build_vars, overflow_checks>>

\* The index of the first declared type named `name`, 0 if there is none.
Declared(name) == Position(types, name)

(***************************************************************************)
(* Enum elaboration: one enum E1 is declared and given entries; a struct   *)
(* S1 with an attribute of type E1 and a typed message with a field of     *)
(* type E1 and a field of type S1 carry it.  The values are small ones,    *)
(* 2^49 and u64::MAX; the build is one with or without overflow checks.    *)
(***************************************************************************)
TwoTo49 == <<2, 0, 0, 0>>
EnumValues == {NoValue} \cup {U64(n) : n \in 0..MaxEnumValue} \cup {TwoTo49, U64Max}

InitEnum ==
    /\ buses = <<>>
    /\ types = Append(new_types,
                   StructBuilder("S1", <<Attribute("a", DescU(3)),
                                         Attribute("e", DescName("E1"))>>))
    /\ messages = Append(new_messages,
                      [MessageBuilder("m1", None) EXCEPT !.format =
                          FormatTypes(<<Field(DescName("E1"), "direct"),
                                        Field(DescName("S1"), "nested")>>)])
    /\ nodes = <<>>
    /\ NotBuilt
    /\ overflow_checks \in BOOLEAN

DefineE1 == Declared("E1") = 0 /\ DefineEnum("E1")

AddEntryE1 == \E value \in EnumValues : Declared("E1") > 0 /\ AddEntry(Declared("E1"), value)

NextEnum ==
    \/ DefineE1
    \/ AddEntryE1
    \/ BuildBuses
    \/ BuildTypes
    \/ ResolveIdsFiltersAndBuses
    \/ BuildMessages
    \/ TagProtocol
    \/ BuildNode
    \/ CrossLink
    \/ Finish

SpecEnum == InitEnum /\ [][NextEnum]_vars

\* The compiled enum E1, once the types are elaborated.
TypesBuilt == pc \notin {"decl", "types"} /\ result \in {"none", "Ok"}
E1 == net_types[Position(net_types, "E1")]
DeclaredE1 == types[Declared("E1")]

MaxOf(S) == IF S = {} THEN 0
            ELSE LET x == CHOOSE y \in S : \A z \in S : z <= y IN x

EntryValues(ty) == {ty.entries[k].value : k \in 1..Len(ty.entries)}

\* The largest u64 of a set that is not empty.
MaxU64(S) == CHOOSE y \in S : \A z \in S : ~lt_u64(y, z)

\* x < 2^w for a u64 x: the word number i (1 is the most significant) holds
\* the binary digits 16 * (4 - i) to 16 * (4 - i) + 15 of x.
Below2(x, w) ==
    \A i \in 1..4 :
        IF w <= 16 * (4 - i) THEN x[i] = 0
        ELSE IF w >= 16 * (4 - i) + 16 THEN TRUE
        ELSE x[i] < Pow2(w - 16 * (4 - i))

\* w = ceil(log2(x + 1)) for a u64 x: 2^(w - 1) < x + 1 <= 2^w
IsCeilLog2Succ(w, x) == /\ w >= 0
                        /\ Below2(x, w)
                        /\ (w > 0 => ~Below2(x, w - 1))

(* C4 (as claimed): every compiled enum with at least one entry has the    *)
(* bit width ceil(log2(max(v_i) + 1)), v_i being its entries' values.      *)
C4_EnumWidth ==
    TypesBuilt =>
        \A k \in 1..Len(net_types) :
            (net_types[k].kind = "Enum" /\ net_types[k].entries # <<>>)
            => IsCeilLog2Succ(net_types[k].size, MaxU64(EntryValues(net_types[k])))

\* The same for the enums whose values are all below 2^48: up to there the
\* f64 arithmetic is exact.
C4_EnumWidthBelow2To48 ==
    TypesBuilt =>
        \A k \in 1..Len(net_types) :
            (/\ net_types[k].kind = "Enum"
             /\ net_types[k].entries # <<>>
             /\ Below2(MaxU64(EntryValues(net_types[k])), 48))
            => IsCeilLog2Succ(net_types[k].size, MaxU64(EntryValues(net_types[k])))

\* What build() yields for the enum {e0 = 2^49}: the width 49, and for
\* {e0 = u64::MAX}: a panic with overflow checks, the width 0 without.
C4_CodeLargeValues ==
    /\ (TypesBuilt /\ EntryValues(E1) = {TwoTo49}) => E1.size = 49
    /\ (pc # "decl" /\ pc # "types" /\ Declared("E1") > 0
           /\ EntryValues(DeclaredE1) = {U64Max}) =>
          IF overflow_checks THEN result = "panic" ELSE E1.size = 0

(* C5 (as claimed): entries keep declaration order, an explicit value is   *)
(* kept, and an entry without a value gets the value of the entry just     *)
(* before it plus 1 (0 for the first entry).                               *)
C5_PreviousPlusOne ==
    TypesBuilt =>
        /\ Len(E1.entries) = Len(DeclaredE1.entries)
        /\ \A k \in 1..Len(E1.entries) :
            /\ E1.entries[k].name = DeclaredE1.entries[k].name
            /\ E1.entries[k].value =
                 IF DeclaredE1.entries[k].value # NoValue THEN DeclaredE1.entries[k].value
                 ELSE IF k = 1 THEN U64(0)
                 ELSE add_one(E1.entries[k - 1].value).v

(* C6 (as claimed): a typed message field of enum type, direct or inside a *)
(* struct, is one unsigned signal as wide as the compiled enum type.       *)
M1 == net_messages[Position(net_messages, "m1")]

C6_EnumSignalWidth ==
    (pc \notin {"decl", "types", "ids", "messages"} /\ result \in {"none", "Ok"}) =>
        /\ Len(M1.signals) = 3
        /\ M1.signals[1].ty = UnsignedInt(E1.size)
        /\ M1.signals[3].ty = UnsignedInt(E1.size)

(***************************************************************************)
(* Message compilation: an enum E1, a struct S1 holding it, a struct S2    *)
(* holding S1 and the nested structs W1 .. W4 (W4 is 1024 bits wide) are   *)
(* declared; one message m1 is made and given a raw signal format or a     *)
(* typed format.                                                           *)
(***************************************************************************)
RawSizes == {1, 12, 16}
RawOffsets == {0, 5}
FieldDescs ==
    {DescU(1), DescU(13), DescI(64), DescD(10, 0, 100), DescName("E1"),
     DescName("S1"), DescName("S2"), DescName("W4"), DescArr(DescU(8), "4")}

InitMessage ==
    /\ buses = <<>>
    /\ types = new_types \o
               <<EnumBuilder("E1", <<Entry("e0", U64(0)), Entry("e1", NoValue), Entry("e2", U64(5))>>),
                 StructBuilder("S1", <<Attribute("a", DescU(3)),
                                       Attribute("e", DescName("E1"))>>),
                 StructBuilder("S2", <<Attribute("s", DescName("S1")),
                                       Attribute("d", DescD(10, 0, 100))>>),
                 \* W4: 16 signals of 64 bits, 1024 bits
                 StructBuilder("W1", <<Attribute("a", DescU(64)),
                                       Attribute("b", DescU(64))>>),
                 StructBuilder("W2", <<Attribute("a", DescName("W1")),
                                       Attribute("b", DescName("W1"))>>),
                 StructBuilder("W3", <<Attribute("a", DescName("W2")),
                                       Attribute("b", DescName("W2"))>>),
                 StructBuilder("W4", <<Attribute("a", DescName("W3")),
                                       Attribute("b", DescName("W3"))>>)>>
    /\ messages = new_messages
    /\ nodes = <<>>
    /\ NotBuilt
    /\ overflow_checks = TRUE   \* nothing overflows in this scenario

DeclaredMessage(name) == Position(messages, name)

CreateM1 == DeclaredMessage("m1") = 0 /\ CreateMessage("m1", None)

AddSignalM1 ==
    \E size \in RawSizes, offset \in RawOffsets :
        DeclaredMessage("m1") > 0 /\ AddSignal(DeclaredMessage("m1"), size, offset)

AddTypeM1 ==
    \E desc \in FieldDescs :
        DeclaredMessage("m1") > 0 /\ AddType(DeclaredMessage("m1"), desc)

NextMessage ==
    \/ CreateM1
    \/ AddSignalM1
    \/ AddTypeM1
    \/ BuildBuses
    \/ BuildTypes
    \/ ResolveIdsFiltersAndBuses
    \/ BuildMessages
    \/ TagProtocol
    \/ BuildNode
    \/ CrossLink
    \/ Finish

SpecMessage == InitMessage /\ [][NextMessage]_vars

MessagesBuilt ==
    pc \notin {"decl", "types", "ids", "messages"} /\ result \in {"none", "Ok"}

Width(signal) == signal.ty.size

\* The signals start at offset 0 and each one ends where the next starts.
Contiguous(signals) ==
    /\ signals # <<>> => signals[1].offset = 0
    /\ \A i \in 1..(Len(signals) - 1) :
          signals[i].offset + Width(signals[i]) = signals[i + 1].offset

(* C2: in every compiled message (raw signal, typed or empty format) the   *)
(* signals start at offset 0 and each signal's offset + width is the next  *)
(* signal's offset.                                                        *)
C2_SignalContiguity ==
    MessagesBuilt => \A m \in 1..Len(net_messages) : Contiguous(net_messages[m].signals)

C2_Witness ==
    /\ result = "Ok"
    /\ Position(net_messages, "m1") > 0
    /\ M1.encoding # None
    /\ Len(M1.signals) = 5
    /\ M1.signals[5].offset > 0

\* T: the maximum of offset + width over the signals (0 without signals).
TotalBits(message) ==
    MaxOf({message.signals[i].offset + Width(message.signals[i]) :
              i \in 1..Len(message.signals)})

(* C3 (as claimed): the byte length of every compiled message is           *)
(* ceil(T / 8), T being the maximum of offset + width over its signals.    *)
C3_Dlc ==
    MessagesBuilt =>
        \A m \in 1..Len(net_messages) :
            /\ 8 * net_messages[m].dlc >= TotalBits(net_messages[m])
            /\ 8 * net_messages[m].dlc < TotalBits(net_messages[m]) + 8

\* What the code computes: ceil(T / 8) cut to the 8 bits of a u8, which is
\* ceil(T / 8) up to 2040 bits; 29 bits give 4 and no signals give 0.
C3_CodeDlc ==
    MessagesBuilt =>
        \A m \in 1..Len(net_messages) :
            LET T == TotalBits(net_messages[m])
            IN  /\ net_messages[m].dlc = ((T + 7) \div 8) % 256
                /\ T <= 2040 => net_messages[m].dlc = (T + 7) \div 8
                /\ T = 29 => net_messages[m].dlc = 4
                /\ net_messages[m].signals = <<>> => net_messages[m].dlc = 0

\* m1 with two typed fields of 1024 bits each: 2048 bits, DLC 0.
C3_CodeWrap ==
    /\ result = "Ok"
    /\ Position(net_messages, "m1") > 0
    /\ TotalBits(M1) = 2048
    /\ M1.dlc = 0

C3_Witness ==
    /\ result = "Ok"
    /\ Position(net_messages, "m1") > 0
    /\ TotalBits(M1) = 29
    /\ M1.dlc = 4

(***************************************************************************)
(* Type ordering: the structs S1, S2, S3 are declared after new() and      *)
(* given attributes whose descriptors name S1, S2 or S3 (declared or not,  *)
(* before or after the struct that names them, itself included).           *)
(***************************************************************************)
StructNames == <<"S1", "S2", "S3">>

UserTypes == Len(types) - Len(new_types)

DefineNextStruct ==
    /\ UserTypes < Len(StructNames)
    /\ DefineStruct(StructNames[UserTypes + 1])

AddReference ==
    \E t \in (Len(new_types) + 1)..Len(types), k \in 1..Len(StructNames) :
        AddAttribute(t, DescName(StructNames[k]))

NextTypes ==
    \/ DefineNextStruct
    \/ AddReference
    \/ BuildBuses
    \/ BuildTypes
    \/ ResolveIdsFiltersAndBuses
    \/ BuildMessages
    \/ TagProtocol
    \/ BuildNode
    \/ CrossLink
    \/ Finish

SpecTypes == New /\ [][NextTypes]_vars

\* The declared types a declared type references: its attributes' descriptors
\* that are names (not in-place descriptors), by the index of the type named.
NamedAttributes(tb) ==
    {tb.attributes[k].ty.name : k \in 1..Len(tb.attributes)}
        \ {tb.attributes[k].ty.name : k \in {j \in 1..Len(tb.attributes) :
                                               tb.attributes[j].ty.tag # "name"}}

References(t) == {Declared(name) : name \in NamedAttributes(types[t])}

RECURSIVE ReachableIn(_, _)
ReachableIn(S, steps) ==
    IF steps = 0 THEN S
    ELSE ReachableIn(S \cup UNION {References(t) : t \in S \ {0}}, steps - 1)

\* Every named attribute names a declared type, and no type reaches itself.
AcyclicDeclarations ==
    /\ \A t \in 1..Len(types) : 0 \notin References(t)
    /\ \A t \in 1..Len(types) : t \notin ReachableIn(References(t), Len(types))

\* In the sequence `order` (of builders or of types) every type named by an
\* attribute of the builder at position p stands at a position before p.
AfterItsReferences(order, p, tb) ==
    \A name \in NamedAttributes(tb) :
        \E q \in 1..(p - 1) : order[q].name = name

(* C7: when the declared types are acyclic, topo_sort_type_builders puts    *)
(* every type after all the types it references, the elaborated type list  *)
(* has that order, and every struct is elaborated (with each attribute     *)
(* resolved to the elaborated type it names).                              *)
C7_TopologicalOrder ==
    (pc \notin {"decl", "types"} /\ AcyclicDeclarations) =>
        /\ result \in {"none", "Ok"}
        /\ Len(type_builders) = Len(types)
        /\ Len(net_types) = Len(types)
        /\ \A t \in 1..Len(types) : \E p \in 1..Len(type_builders) : type_builders[p] = types[t]
        /\ \A p \in 1..Len(type_builders) :
              /\ AfterItsReferences(type_builders, p, type_builders[p])
              /\ AfterItsReferences(net_types, p, type_builders[p])
              /\ net_types[p].name = type_builders[p].name
              /\ net_types[p].kind = type_builders[p].kind
              /\ type_builders[p].kind = "Struct" =>
                    /\ Len(net_types[p].attribs) = Len(type_builders[p].attributes)
                    /\ \A k \in 1..Len(net_types[p].attribs) :
                          type_builders[p].attributes[k].ty.tag = "name" =>
                              \E q \in 1..(p - 1) : net_types[q] = net_types[p].attribs[k].ty

\* S1 names S2 and S3, S2 names S3: declared in the order S1, S2, S3 and
\* elaborated in the order S3, S2, S1.
C7_Witness ==
    /\ result = "Ok"
    /\ UserTypes = 3
    /\ NamedAttributes(types[Declared("S1")]) = {"S2", "S3"}
    /\ NamedAttributes(types[Declared("S2")]) = {"S3"}
    /\ Position(net_types, "S3") < Position(net_types, "S2")
    /\ Position(net_types, "S2") < Position(net_types, "S1")

(***************************************************************************)
(* Message usage: a node n1 with the object entry "a" and the command c1   *)
(* (request "req", response "resp") is declared; messages named m1 or m2   *)
(* are created with or without an expected interval (a name can be used    *)
(* twice: create_message does not look for it), and n1 can get a tx stream *)
(* carried by any of the declared messages.                                *)
(***************************************************************************)
UserNames == {"m1", "m2"}
Intervals == {None, Some(10)}

N1 == [NodeBuilder("n1") EXCEPT
          !.object_entries = <<ObjectEntryBuilder("a", DescU(8))>>,
          !.commands = <<CommandBuilder("c1", "req", "resp")>>]

InitUsage ==
    /\ buses = <<>>
    /\ types = new_types
    /\ messages = new_messages \o <<MessageBuilder("req", None), MessageBuilder("resp", None)>>
    /\ nodes = <<N1>>
    /\ NotBuilt
    /\ overflow_checks = TRUE   \* nothing overflows in this scenario

UserMessages == Len(messages) - Len(new_messages) - 2

CreateUserMessage ==
    \E name \in UserNames, expected_interval \in Intervals :
        /\ UserMessages < MaxUserMessages
        /\ CreateMessage(name, expected_interval)

\* NodeBuilder::create_stream on the node n, carried by the message named
\* `message`, with the node's object entries `object_entries` (names).
CreateStream(n, message, object_entries) ==
    /\ pc = "decl"
    /\ nodes' = [nodes EXCEPT ![n].tx_streams =
                    Append(@, StreamBuilder("s" \o ToString(Len(@)), message, object_entries))]
    /\ UNCHANGED <<buses, types, messages, build_vars, overflow_checks>>

CreateStreamN1 ==
    \E m \in (Len(new_messages) + 1)..Len(messages) :
        /\ nodes[1].tx_streams = <<>>
        /\ CreateStream(1, messages[m].name, <<"a">>)

NextUsage ==
    \/ CreateUserMessage
    \/ CreateStreamN1
    \/ BuildBuses
    \/ BuildTypes
    \/ ResolveIdsFiltersAndBuses
    \/ BuildMessages
    \/ TagProtocol
    \/ BuildNode
    \/ CrossLink
    \/ Finish

SpecUsage == InitUsage /\ [][NextUsage]_vars

UsageOf(m) == net_messages[m].usage

\* The compiled messages that are the request or the response of a command.
CommandMessages ==
    UNION {UNION {{net_nodes[n].commands[k].tx_message, net_nodes[n].commands[k].rx_message} :
                     k \in 1..Len(net_nodes[n].commands)} :
              n \in 1..Len(net_nodes)}

\* The compiled messages that carry a tx stream.
StreamMessages ==
    UNION {{net_nodes[n].tx_streams[k].message : k \in 1..Len(net_nodes[n].tx_streams)} :
              n \in 1..Len(net_nodes)}

\* Network::new(.., get_req_message, ..): the protocol messages, found by name.
ProtocolMessages == {Position(net_messages, name) : name \in ProtocolNames}

(* C8: in a returned network every message has a usage and its usage slot   *)
(* was written exactly once; the protocol messages carry GetReq, GetResp,  *)
(* SetReq and SetResp, the request/response of every command carry         *)
(* CommandReq/CommandResp of that command and the message of every tx      *)
(* stream carries Stream of that stream.                                   *)
C8_SingleUsage ==
    result = "Ok" =>
        /\ \A m \in 1..Len(net_messages) :
              UsageOf(m) # None /\ net_messages[m].writes = 1
        /\ UsageOf(Position(net_messages, get_req_name)) = Some(Usage("GetReq", 0, 0, None))
        /\ UsageOf(Position(net_messages, get_resp_name)) = Some(Usage("GetResp", 0, 0, None))
        /\ UsageOf(Position(net_messages, set_req_name)) = Some(Usage("SetReq", 0, 0, None))
        /\ UsageOf(Position(net_messages, set_resp_name)) = Some(Usage("SetResp", 0, 0, None))
        /\ \A n \in 1..Len(net_nodes) :
              /\ \A k \in 1..Len(net_nodes[n].commands) :
                    /\ UsageOf(net_nodes[n].commands[k].tx_message)
                           = Some(Usage("CommandReq", n - 1, k, None))
                    /\ UsageOf(net_nodes[n].commands[k].rx_message)
                           = Some(Usage("CommandResp", n - 1, k, None))
              /\ \A k \in 1..Len(net_nodes[n].tx_streams) :
                    UsageOf(net_nodes[n].tx_streams[k].message)
                        = Some(Usage("Stream", n - 1, k, None))

\* A returned network with a command, a tx stream carried by m1 and the
\* external message m2.
C8_Witness ==
    /\ result = "Ok"
    /\ Len(net_messages) = Len(new_messages) + 4
    /\ Len(net_nodes) = 1
    /\ Len(net_nodes[1].commands) = 1
    /\ Len(net_nodes[1].tx_streams) = 1
    /\ net_messages[net_nodes[1].tx_streams[1].message].name = "m1"
    /\ Position(net_messages, "m2") > 0
    /\ UsageOf(Position(net_messages, "m2")) # None
    /\ UsageOf(Position(net_messages, "m2"))[1].kind = "External"

(* C9: every message that is not a protocol message, not the request or    *)
(* response of a command and not the carrier of a tx stream ends the build *)
(* with the usage External{interval}: the expected interval it was created *)
(* with, or 60 seconds when it was created with none.                      *)
C9_DefaultUsage ==
    result = "Ok" =>
        \A m \in (1..Len(net_messages)) \ (ProtocolMessages \cup CommandMessages \cup StreamMessages) :
            UsageOf(m) = Some(Usage("External", 0, 0,
                              IF messages[m].usage.interval = None THEN DefaultInterval
                              ELSE messages[m].usage.interval[1]))

\* The same, for the messages whose name no other declared message has.
UniqueName(m) == \A o \in 1..Len(messages) : messages[o].name = messages[m].name => o = m

C9_DefaultUsageUniqueNames ==
    result = "Ok" =>
        \A m \in (1..Len(net_messages)) \ (ProtocolMessages \cup CommandMessages \cup StreamMessages) :
            UniqueName(m) =>
                UsageOf(m) = Some(Usage("External", 0, 0,
                                  IF messages[m].usage.interval = None THEN DefaultInterval
                                  ELSE messages[m].usage.interval[1]))

(***************************************************************************)
(* Buses: up to MaxBuses buses are created, the message m1 is created and  *)
(* can be assigned to one of them explicitly.                              *)
(***************************************************************************)
\* create_bus(name)
CreateBus(name) ==
    /\ pc = "decl"
    /\ buses' = create_bus(buses, name)
    /\ UNCHANGED <<types, messages, nodes, build_vars, overflow_checks>>

CreateNextBus ==
    /\ Len(buses) < MaxBuses
    /\ CreateBus("bus" \o ToString(Len(buses)))

\* MessageBuilder::assign_bus on the message m: the bus is one of the
\* declared buses.
AssignBus(m, b) ==
    /\ pc = "decl"
    /\ messages' = [messages EXCEPT ![m].bus = Some(buses[b].id)]
    /\ UNCHANGED <<buses, types, nodes, build_vars, overflow_checks>>

AssignBusM1 ==
    \E b \in 1..Len(buses) :
        /\ DeclaredMessage("m1") > 0
        /\ messages[DeclaredMessage("m1")].bus = None
        /\ AssignBus(DeclaredMessage("m1"), b)

NextBus ==
    \/ CreateNextBus
    \/ CreateM1
    \/ AssignBusM1
    \/ BuildBuses
    \/ BuildTypes
    \/ ResolveIdsFiltersAndBuses
    \/ BuildMessages
    \/ TagProtocol
    \/ BuildNode
    \/ CrossLink
    \/ Finish

SpecBus == New /\ [][NextBus]_vars

\* The step of build() that fixes the bus list.
BusListStep == pc = "decl" /\ pc' = "types"

\* The builder had no bus and build() made the default one.
DefaultBusOnly == buses = <<BusBuilder("can0", 0)>>

(* C10: build() on a builder without buses yields exactly one bus, with id  *)
(* 0, and every compiled message is on it; build() on a builder with       *)
(* k >= 1 buses yields exactly those k buses, and every compiled message   *)
(* is on one of the network's buses.                                       *)
C10_AtLeastOneBus ==
    /\ [][BusListStep =>
            IF buses = <<>>
            THEN net_buses' = <<[id |-> 0]>>
            ELSE /\ Len(net_buses') = Len(buses)
                 /\ \A k \in 1..Len(buses) : net_buses'[k].id = buses[k].id
                 /\ buses' = buses]_vars
    /\ [](MessagesBuilt =>
            /\ \A m \in 1..Len(net_messages) :
                  \E b \in 1..Len(net_buses) : net_buses[b].id = net_messages[m].bus
            /\ DefaultBusOnly =>
                  \A m \in 1..Len(net_messages) : net_messages[m].bus = 0)

\* A returned network of a builder without buses: the default bus carries
\* the protocol messages and m1.
C10_Witness ==
    /\ result = "Ok"
    /\ DefaultBusOnly
    /\ net_buses = <<[id |-> 0]>>
    /\ Position(net_messages, "m1") > 0
    /\ \A m \in 1..Len(net_messages) : net_messages[m].bus = 0

(***************************************************************************)
(* Streams: the node "pub" owns MaxStreamLen object entries and the tx      *)
(* stream "s" (carried by the message "sm"), to which its entries are      *)
(* added in order; the node "sub" owns the object entries "a" and "b" and  *)
(* receives "s", mapping positions of the stream to its own entries.       *)
(***************************************************************************)
Pub ==
    [NodeBuilder("pub") EXCEPT
        !.object_entries = [k \in 1..MaxStreamLen |->
                               ObjectEntryBuilder("p" \o ToString(k - 1), DescU(8))],
        !.tx_streams = <<StreamBuilder("s", "sm", <<>>)>>]

Sub ==
    [NodeBuilder("sub") EXCEPT
        !.object_entries = <<ObjectEntryBuilder("a", DescU(8)),
                             ObjectEntryBuilder("b", DescU(16))>>,
        !.rx_streams = <<ReceiveStreamBuilder("pub", "s", "sub", <<>>)>>]

InitStream ==
    /\ buses = <<>>
    /\ types = new_types
    /\ messages = new_messages \o <<MessageBuilder("sm", None)>>
    /\ nodes = <<Pub, Sub>>
    /\ NotBuilt
    /\ overflow_checks = TRUE   \* nothing overflows in this scenario

\* StreamBuilder::add_entry on the tx stream s of the node n.
AddStreamEntry(n, s, name) ==
    /\ pc = "decl"
    /\ nodes' = [nodes EXCEPT ![n].tx_streams[s].object_entries = Append(@, name)]
    /\ UNCHANGED <<buses, types, messages, build_vars, overflow_checks>>

\* ReceiveStreamBuilder::map on the rx stream s of the node n: the position
\* pos of the stream goes to the node's object entry oe.
MapPosition(n, s, pos, oe) ==
    /\ pc = "decl"
    /\ nodes' = [nodes EXCEPT ![n].rx_streams[s].object_entries = Append(@, Pair(pos, oe))]
    /\ UNCHANGED <<buses, types, messages, build_vars, overflow_checks>>

Published == nodes[1].tx_streams[1].object_entries
Requested == nodes[2].rx_streams[1].object_entries

PublishNext ==
    /\ Len(Published) < MaxStreamLen
    /\ AddStreamEntry(1, 1, "p" \o ToString(Len(Published)))

Subscribe ==
    \E pos \in 0..(MaxStreamLen - 1), oe \in {"a", "b"} :
        /\ Len(Requested) < MaxPairs
        /\ MapPosition(2, 1, pos, oe)

NextStream ==
    \/ PublishNext
    \/ Subscribe
    \/ BuildBuses
    \/ BuildTypes
    \/ ResolveIdsFiltersAndBuses
    \/ BuildMessages
    \/ TagProtocol
    \/ BuildNode
    \/ CrossLink
    \/ Finish

SpecStream == InitStream /\ [][NextStream]_vars

\* The subscriber's pairs have distinct positions, all below the number of
\* positions of the publisher's stream.
ValidRequest ==
    /\ \A k \in 1..Len(Requested) : Requested[k].pos < Len(Published)
    /\ \A k, l \in 1..Len(Requested) : Requested[k].pos = Requested[l].pos => k = l

\* The slot of position i: the subscriber's entry requested there, or None.
ExpectedSlot(i) ==
    IF \E k \in 1..Len(Requested) : Requested[k].pos = i
    THEN LET k == CHOOSE k \in 1..Len(Requested) : Requested[k].pos = i
         IN  Some(net_nodes[2].object_entries[Position(net_nodes[2].object_entries,
                                                       Requested[k].oe)])
    ELSE None

(* C1: for a publisher tx stream with P positions and a subscriber mapping *)
(* with distinct positions below P, the compiled rx stream mapping has     *)
(* exactly P slots, Some(entry) at every requested position and None at    *)
(* every other position.                                                   *)
C1_RxStreamMapping ==
    (pc = "done" /\ ValidRequest) =>
        /\ result = "Ok"
        /\ Len(net_nodes[2].rx_streams) = 1
        /\ Len(net_nodes[2].rx_streams[1].mapping) = Len(Published)
        /\ \A i \in 0..(Len(Published) - 1) :
              net_nodes[2].rx_streams[1].mapping[i + 1] = ExpectedSlot(i)

\* What build() yields for P = 5 and {1: a, 3: b}: two slots, [None, Some(a)].
C1_CodeMapping ==
    (/\ pc = "done"
     /\ Len(Published) = 5
     /\ Requested = <<Pair(1, "a"), Pair(3, "b")>>) =>
        /\ result = "Ok"
        /\ Len(net_nodes[2].rx_streams[1].mapping) = 2
        /\ net_nodes[2].rx_streams[1].mapping[1] = None
        /\ net_nodes[2].rx_streams[1].mapping[2] # None
        /\ net_nodes[2].rx_streams[1].mapping[2][1].name = "a"

(***************************************************************************)
(* Descriptor resolution: the enum E0 and the structs S1 and "R<1..2>"     *)
(* (define_struct takes any string as a name) are declared, the message m1 *)
(* and the node n1 are created; S1 gets one attribute, m1 one typed field  *)
(* and n1 one object entry, each with a descriptor of ResolveDescs, in a   *)
(* build with or without overflow checks.                                  *)
(***************************************************************************)
ResolveDescs ==
    {DescU(8), DescD(10, 0, 100), DescD(8, 5, 5), DescD(8, 7, 3), DescD(0, 0, 1),
     DescD(65, 0, 1), DescName("E0"), DescName("S1"), DescName("Nope"),
     DescArr(DescU(8), "4"), DescArr(DescD(10, 0, 100), "2"), DescArr(DescName("E0"), "2"),
     DescArr(DescName("get_req_header"), "2"), DescArr(DescName("Nope"), "2"),
     DescArr(DescName("R<1..2>"), "3"), DescArr(DescU(8), "18446744073709551616"),
     DescArr(DescName("Nope"), "018446744073709551616")}

InitResolve ==
    /\ buses = <<>>
    /\ types = new_types \o <<EnumBuilder("E0", SuccessError), StructBuilder("S1", <<>>),
                              StructBuilder("R<1..2>", <<Attribute("a", DescU(3))>>)>>
    /\ messages = new_messages \o <<MessageBuilder("m1", None)>>
    /\ nodes = <<NodeBuilder("n1")>>
    /\ pc = "decl"
    /\ result = "none"
    /\ net_buses = <<>>
    /\ type_builders = <<>>
    /\ net_types = <<>>
    /\ net_messages = <<>>
    /\ net_nodes = <<>>
    /\ node_i = 1
    /\ overflow_checks \in BOOLEAN

\* NodeBuilder::create_object_entry(name, type descriptor) on the node n.
CreateObjectEntry(n, name, desc) ==
    /\ pc = "decl"
    /\ nodes' = [nodes EXCEPT ![n].object_entries = Append(@, ObjectEntryBuilder(name, desc))]
    /\ UNCHANGED <<buses, types, messages, build_vars, overflow_checks>>

AttributeS1 ==
    \E desc \in ResolveDescs :
        /\ types[Declared("S1")].attributes = <<>>
        /\ AddAttribute(Declared("S1"), desc)

FieldM1 ==
    \E desc \in ResolveDescs :
        /\ messages[DeclaredMessage("m1")].format.fields = <<>>
        /\ AddType(DeclaredMessage("m1"), desc)

ObjectEntryN1 ==
    \E desc \in ResolveDescs :
        /\ nodes[1].object_entries = <<>>
        /\ CreateObjectEntry(1, "oe", desc)

NextResolve ==
    \/ AttributeS1
    \/ FieldM1
    \/ ObjectEntryN1
    \/ BuildBuses
    \/ BuildTypes
    \/ ResolveIdsFiltersAndBuses
    \/ BuildMessages
    \/ TagProtocol
    \/ BuildNode
    \/ CrossLink
    \/ Finish

SpecResolve == InitResolve /\ [][NextResolve]_vars

\* The descriptors of the scenario that build() has to resolve.
AttributeDescs ==
    {types[Declared("S1")].attributes[k].ty : k \in 1..Len(types[Declared("S1")].attributes)}
FieldDescsM1 ==
    {messages[DeclaredMessage("m1")].format.fields[k].ty :
        k \in 1..Len(messages[DeclaredMessage("m1")].format.fields)}
ObjectEntryDescs ==
    {nodes[1].object_entries[k].ty : k \in 1..Len(nodes[1].object_entries)}

BadRange(d) == d.tag = "d" /\ d.min >= d.max

(* C11 (as claimed): when a struct attribute, a typed message field or an  *)
(* object entry type is a decimal descriptor with min >= max, build()      *)
(* ends with the error InvalidRange.                                       *)
C11_InvalidRange ==
    (pc = "done" /\ \E d \in AttributeDescs \cup FieldDescsM1 \cup ObjectEntryDescs : BadRange(d))
        => result = "InvalidRange"

\* The same for typed message fields and object entry types, when every
\* other descriptor resolves to a primitive or an enum.
PlainDescs == {DescU(8), DescD(10, 0, 100), DescName("E0")}

C11_InvalidRangeOutsideStructs ==
    (/\ pc = "done"
     /\ AttributeDescs \subseteq PlainDescs
     /\ \A d \in FieldDescsM1 \cup ObjectEntryDescs : BadRange(d) \/ d \in PlainDescs
     /\ \E d \in FieldDescsM1 \cup ObjectEntryDescs : BadRange(d))
        => result = "InvalidRange"

\* What build() yields when only the struct attribute has min >= max.
C11_CodeStructAttribute ==
    (/\ pc = "done"
     /\ \E d \in AttributeDescs : BadRange(d)
     /\ FieldDescsM1 = {} /\ ObjectEntryDescs = {})
        => result = "UndefinedType"

\* The array descriptors among the typed fields and the object entry types
\* whose inner descriptor resolves against the elaborated types.
ArrayOfResolved(d) ==
    /\ net_types # <<>>
    /\ d.tag = "arr"
    /\ resolve_type(net_types, d.inner[1]).ok

\* An array descriptor with a length above usize::MAX.
LengthOverflow(d) ==
    array_regex(d) /\ exceeds_usize(d.len)

\* r is Ok(Array{len, T}): len the number d's length writes, T the type
\* d's inner descriptor resolves to.
IsArrayOf(r, d) ==
    /\ r.ok
    /\ r.v[1].kind = "Array"
    /\ ~exceeds_usize(d.len)
    /\ r.v[1].len = digits_value(d.len, Len(d.len))
    /\ r.v[1].ty = resolve_type(net_types, d.inner[1]).v

(* C12 (as claimed): once the types are elaborated, a descriptor            *)
(* <inner>[<len>] whose inner descriptor resolves to a type T (an integer,  *)
(* a decimal with its range, or the name of an elaborated struct or enum,   *)
(* names with underscores included) resolves to Array{len, T}.              *)
C12_ArrayDescriptor ==
    \A d \in FieldDescsM1 \cup ObjectEntryDescs :
        ArrayOfResolved(d) => IsArrayOf(resolve_type(net_types, d), d)

\* The same when the text of the inner descriptor is [a-zA-Z][a-zA-Z0-9]*
\* with an optional range, the name "R<1..2>" of a struct included, and the
\* length fits a usize.
C12_ArrayOfPlainName ==
    \A d \in FieldDescsM1 \cup ObjectEntryDescs :
        (ArrayOfResolved(d) /\ type_group(d.inner[1].name) /\ ~LengthOverflow(d)) =>
            IsArrayOf(resolve_type(net_types, d), d)

\* A length above usize::MAX is a fault, whatever the inner descriptor is:
\* the length is parsed before the inner descriptor is resolved.
C12_CodeLengthOverflow ==
    /\ \A d \in AttributeDescs \cup FieldDescsM1 \cup ObjectEntryDescs :
          LengthOverflow(d) => resolve_type(net_types, d) = Err("panic")
    /\ (/\ pc = "done"
        /\ AttributeDescs \subseteq PlainDescs
        /\ FieldDescsM1 # {}
        /\ \A d \in FieldDescsM1 : LengthOverflow(d))
          => result = "panic"

\* What build() yields for a typed field that is an array of get_req_header.
C12_CodeUnderscoreName ==
    (/\ pc = "done"
     /\ AttributeDescs \subseteq PlainDescs
     /\ FieldDescsM1 = {DescArr(DescName("get_req_header"), "2")})
        => result = "InvalidType"

(***************************************************************************)
(* Decimal descriptors: the message m1 gets one typed field d<N><min..max> *)
(* for any size N the grammar [0-9]{1,2} admits, in a build with or        *)
(* without overflow checks.                                                *)
(***************************************************************************)
MaxDecimalSize == 99
DecimalRanges == {<<0, 1>>, <<-5, 5>>, <<3, 3>>}

InitDecimal ==
    /\ buses = <<>>
    /\ types = new_types
    /\ messages = new_messages \o <<MessageBuilder("m1", None)>>
    /\ nodes = <<>>
    /\ NotBuilt
    /\ overflow_checks \in BOOLEAN

AddDecimalM1 ==
    \E n \in 0..MaxDecimalSize, r \in DecimalRanges :
        /\ messages[DeclaredMessage("m1")].format.fields = <<>>
        /\ AddType(DeclaredMessage("m1"), DescD(n, r[1], r[2]))

NextDecimal ==
    \/ AddDecimalM1
    \/ BuildBuses
    \/ BuildTypes
    \/ ResolveIdsFiltersAndBuses
    \/ BuildMessages
    \/ TagProtocol
    \/ BuildNode
    \/ CrossLink
    \/ Finish

SpecDecimal == InitDecimal /\ [][NextDecimal]_vars

\* The decimal descriptor of m1's field, once it is declared.
DecimalM1 == messages[DeclaredMessage("m1")].format.fields[1].ty
ProperDecimalM1 ==
    /\ messages[DeclaredMessage("m1")].format.fields # <<>>
    /\ DecimalM1.min < DecimalM1.max

\* The signal type the descriptor d<N><min..max> stands for.
DerivedDecimal(d) == Decimal(d.size, d.min, Scale(d.max - d.min, d.size))

(* C13 (as claimed): for every descriptor d<N><min..max> with one or two   *)
(* digits N and min < max, the descriptor resolves without a fault to a    *)
(* decimal of N bits with offset min and scale (max - min) / (2^N - 1).    *)
C13_DecimalDerivation ==
    (pc = "done" /\ ProperDecimalM1) =>
        /\ result = "Ok"
        /\ M1.signals[1].ty = DerivedDecimal(DecimalM1)

\* The same for the sizes 1..64.
C13_DecimalUpTo64 ==
    (pc = "done" /\ ProperDecimalM1 /\ DecimalM1.size \in 1..64) =>
        /\ result = "Ok"
        /\ M1.signals[1].ty = DerivedDecimal(DecimalM1)

\* What build() yields for the size 0 and the sizes 65..99.
C13_CodeOtherSizes ==
    (pc = "done" /\ ProperDecimalM1 /\ DecimalM1.size \notin 1..64) =>
        IF overflow_checks THEN result = "panic"
        ELSE IF DecimalM1.size > 64 THEN result = "InvalidType"
        ELSE /\ result = "Ok"
             /\ M1.signals[1].ty = Decimal(0, DecimalM1.min,
                                           Scale(DecimalM1.max - DecimalM1.min, 64))

(***************************************************************************)
(* Cyclic declarations, in the scenario of the type ordering.              *)
(***************************************************************************)
\* Every named attribute names a declared type, and some type reaches itself.
CyclicDeclarations ==
    /\ \A t \in 1..Len(types) : 0 \notin References(t)
    /\ \E t \in 1..Len(types) : t \in ReachableIn(References(t), Len(types))

(* C14 (as claimed): when the declared types hold a reference cycle (a     *)
(* self-reference included), the type-ordering step never returns: build() *)
(* does not get past it.                                                   *)
C14_NeverReturns ==
    CyclicDeclarations => pc \in {"decl", "types"}

(* C14 (amended): when the declared types hold a reference cycle,          *)
(* topo_sort_type_builders, when build() reaches it, returns an order of   *)
(* all the declared types (every type is visited once), and build() fails  *)
(* with InvalidType in the elaboration that follows.                       *)
C14_CycleIsInvalidType ==
    CyclicDeclarations =>
        /\ pc = "types" =>
              LET sorted == topo_sort_type_builders(types)
              IN  /\ sorted.ok
                  /\ Len(sorted.v[1]) = Len(types)
                  /\ \A t \in 1..Len(types) : \E p \in 1..Len(types) : sorted.v[1][p] = types[t]
        /\ pc \notin {"decl", "types"} => (pc = "done" /\ result = "InvalidType")

\* S1 names S2 and S2 names S1; build() has ended.
C14_Witness ==
    /\ pc = "done"
    /\ result = "InvalidType"
    /\ UserTypes >= 2
    /\ NamedAttributes(types[Declared("S1")]) = {"S2"}
    /\ NamedAttributes(types[Declared("S2")]) = {"S1"}

\* A type that is an array, or a struct with such a type among its attributes.
RECURSIVE HasArray(_)
HasArray(ty) ==
    \/ ty.kind = "Array"
    \/ /\ ty.kind = "Struct"
       /\ \E k \in 1..Len(ty.attribs) : HasArray(ty.attribs[k].ty)

\* The typed field of m1 resolves against the elaborated types to an array,
\* or to a struct containing one.
ArrayFieldM1 ==
    /\ net_types # <<>>
    /\ \E d \in FieldDescsM1 :
          /\ resolve_type(net_types, d).ok
          /\ HasArray(resolve_type(net_types, d).v[1])

NamedErrors == {"InvalidRange", "InvalidType", "UndefinedType"}

\* The signals an array type stands for: the element's signals, len times.
RECURSIVE SignalCount(_)
RECURSIVE SignalCountAll(_, _)
SignalCountAll(attribs, k) ==
    IF k > Len(attribs) THEN 0
    ELSE SignalCount(attribs[k].ty) + SignalCountAll(attribs, k + 1)

SignalCount(ty) ==
    IF ty.kind = "Array" THEN ty.len * SignalCount(ty.ty[1])
    ELSE IF ty.kind = "Struct" THEN SignalCountAll(ty.attribs, 1)
    ELSE 1

(* C15 (as claimed): when a typed field of a message resolves to an array  *)
(* (or to a struct containing one), build() either lays out the element    *)
(* encoding len times or ends with a named error; it never faults.         *)
C15_ArrayField ==
    (pc = "done" /\ ArrayFieldM1) =>
        \/ result \in NamedErrors
        \/ /\ result = "Ok"
           /\ \A d \in FieldDescsM1 :
                 Len(M1.signals) = SignalCount(resolve_type(net_types, d).v[1])

\* What build() does with such a field: the todo!() of build_attribute.
C15_CodeArrayField ==
    (pc = "done" /\ ArrayFieldM1) => result = "panic"

\* The descriptors that cannot be undefined: a valid in-place descriptor, the
\* name of a declared type, or an array of one of these.
ValidInPlace(d) ==
    \/ d.tag \in {"i", "u"} /\ d.size \in 1..64
    \/ d.tag = "d" /\ d.size \in 1..64 /\ d.min < d.max
DeclaredName(d) == d.tag = "name" /\ Declared(d.name) > 0
UndeclaredName(d) == d.tag = "name" /\ Declared(d.name) = 0
Defined(d) ==
    \/ ValidInPlace(d)
    \/ DeclaredName(d)
    \/ d.tag = "arr" /\ (ValidInPlace(d.inner[1]) \/ DeclaredName(d.inner[1]))

(* C16 (as claimed): build() fails with UndefinedType when an attribute of *)
(* a struct is not an in-place descriptor and names a type declared        *)
(* nowhere, and only then: not when every attribute is a valid in-place    *)
(* descriptor, a declared name or an array of a declared type.             *)
C16_UndefinedType ==
    pc = "done" =>
        /\ (\E d \in AttributeDescs : UndeclaredName(d)) => result = "UndefinedType"
        /\ (\A d \in AttributeDescs : Defined(d)) => result # "UndefinedType"

\* The first half alone.
C16_UndeclaredIsUndefined ==
    (pc = "done" /\ \E d \in AttributeDescs : UndeclaredName(d)) => result = "UndefinedType"

\* What the code does: UndefinedType comes out exactly when an attribute's
\* descriptor does not resolve against the empty type list (without a fault)
\* and its whole text is not the name of a declared type.
C16_CodeUndefinedType ==
    pc = "done" =>
        (result = "UndefinedType" <=>
            \E d \in AttributeDescs :
                /\ ~resolve_type(<<>>, d).ok
                /\ resolve_type(<<>>, d).err # "panic"
                /\ Declared(d.name) = 0)

(***************************************************************************)
(* Shared messages: the messages m1 and m2 are created and the node n1 has *)
(* the object entry "a"; n1 gets commands whose request and response are   *)
(* any of m1, m2 and the protocol message get_req, and tx streams carried  *)
(* by any of them.                                                         *)
(***************************************************************************)
SharedNames == {"m1", "m2", get_req_name}

InitShared ==
    /\ buses = <<>>
    /\ types = new_types
    /\ messages = new_messages \o <<MessageBuilder("m1", None), MessageBuilder("m2", None)>>
    /\ nodes = <<[NodeBuilder("n1") EXCEPT
                    !.object_entries = <<ObjectEntryBuilder("a", DescU(8))>>]>>
    /\ NotBuilt
    /\ overflow_checks = TRUE   \* nothing overflows in this scenario

\* NodeBuilder::create_command on the node n, with the request message named
\* call_message and the response message named resp_message.
CreateCommand(n, call_message, resp_message) ==
    /\ pc = "decl"
    /\ nodes' = [nodes EXCEPT ![n].commands =
                    Append(@, CommandBuilder("c" \o ToString(Len(@)), call_message,
                                             resp_message))]
    /\ UNCHANGED <<buses, types, messages, build_vars, overflow_checks>>

Users == Len(nodes[1].commands) + Len(nodes[1].tx_streams)

CreateCommandN1 ==
    \E call_message \in SharedNames, resp_message \in SharedNames :
        /\ Users < MaxUsers
        /\ CreateCommand(1, call_message, resp_message)

CreateSharedStreamN1 ==
    \E message \in SharedNames :
        /\ Users < MaxUsers
        /\ CreateStream(1, message, <<"a">>)

NextShared ==
    \/ CreateCommandN1
    \/ CreateSharedStreamN1
    \/ BuildBuses
    \/ BuildTypes
    \/ ResolveIdsFiltersAndBuses
    \/ BuildMessages
    \/ TagProtocol
    \/ BuildNode
    \/ CrossLink
    \/ Finish

SpecShared == InitShared /\ [][NextShared]_vars

\* The number of usages the builder graph gives the message named `name`:
\* one for a protocol message, one for each command that has it as request,
\* one for each that has it as response, one for each tx stream it carries.
Uses(name) ==
    (IF name \in ProtocolNames THEN 1 ELSE 0)
    + Cardinality({k \in 1..Len(nodes[1].commands) : nodes[1].commands[k].call_message = name})
    + Cardinality({k \in 1..Len(nodes[1].commands) : nodes[1].commands[k].resp_message = name})
    + Cardinality({k \in 1..Len(nodes[1].tx_streams) : nodes[1].tx_streams[k].message = name})

UsedTwice == \E name \in SharedNames : Uses(name) >= 2

(* C17: when the builder graph gives one message two usages (request and   *)
(* response of one command, two commands, a command and a tx stream, two   *)
(* tx streams, or a protocol message used by a command or a tx stream),    *)
(* build() ends in a fault; no usage slot is ever written twice and no     *)
(* network is returned.                                                    *)
C17_SecondUsageFaults ==
    /\ \A m \in 1..Len(net_messages) : net_messages[m].writes <= 1
    /\ (pc = "done" /\ UsedTwice) => result = "panic"

\* m1 is the request of the command c0 and carries the stream s0.
C17_Witness ==
    /\ pc = "done"
    /\ result = "panic"
    /\ Len(nodes[1].commands) = 1
    /\ nodes[1].commands[1].call_message = "m1"
    /\ nodes[1].commands[1].resp_message = "m2"
    /\ Len(nodes[1].tx_streams) = 1
    /\ nodes[1].tx_streams[1].message = "m1"

(***************************************************************************)
(* Tx streams: the node n1 owns the object entries a, b, c and two tx      *)
(* streams: s0, carried by m1, to which any of its entries are added in    *)
(* any order (also repeatedly), and s1, carried by m2, with the entries    *)
(* c and a.                                                                *)
(***************************************************************************)
TxNames == {"a", "b", "c"}

InitTx ==
    /\ buses = <<>>
    /\ types = new_types
    /\ messages = new_messages \o <<MessageBuilder("m1", None), MessageBuilder("m2", None)>>
    /\ nodes = <<[NodeBuilder("n1") EXCEPT
                    !.object_entries = <<ObjectEntryBuilder("a", DescU(8)),
                                         ObjectEntryBuilder("b", DescU(16)),
                                         ObjectEntryBuilder("c", DescU(8))>>,
                    !.tx_streams = <<StreamBuilder("s0", "m1", <<>>),
                                     StreamBuilder("s1", "m2", <<"c", "a">>)>>]>>
    /\ NotBuilt
    /\ overflow_checks = TRUE   \* nothing overflows in this scenario

AddTxEntry ==
    \E name \in TxNames :
        /\ Len(nodes[1].tx_streams[1].object_entries) < MaxStreamLen
        /\ AddStreamEntry(1, 1, name)

NextTx ==
    \/ AddTxEntry
    \/ BuildBuses
    \/ BuildTypes
    \/ ResolveIdsFiltersAndBuses
    \/ BuildMessages
    \/ TagProtocol
    \/ BuildNode
    \/ CrossLink
    \/ Finish

SpecTx == InitTx /\ [][NextTx]_vars

(* C18: in a returned network, the mapping of every tx stream of a node is *)
(* as long as the stream's declared list of object entries and has no      *)
(* None; its i-th slot is the node's own compiled object entry that has    *)
(* the name of the i-th declared entry, and the stream's message is the    *)
(* compiled message with the declared message's name.                      *)
C18_TxStreamMapping ==
    result = "Ok" =>
        \A n \in 1..Len(nodes) :
            /\ Len(net_nodes[n].tx_streams) = Len(nodes[n].tx_streams)
            /\ \A k \in 1..Len(nodes[n].tx_streams) :
                  /\ net_nodes[n].tx_streams[k].name = nodes[n].tx_streams[k].name
                  /\ net_messages[net_nodes[n].tx_streams[k].message].name
                         = nodes[n].tx_streams[k].message
                  /\ Len(net_nodes[n].tx_streams[k].mapping)
                         = Len(nodes[n].tx_streams[k].object_entries)
                  /\ \A i \in 1..Len(nodes[n].tx_streams[k].object_entries) :
                        /\ net_nodes[n].tx_streams[k].mapping[i] # None
                        /\ net_nodes[n].tx_streams[k].mapping[i][1].name
                               = nodes[n].tx_streams[k].object_entries[i]
                        /\ \E e \in 1..Len(net_nodes[n].object_entries) :
                              net_nodes[n].object_entries[e]
                                  = net_nodes[n].tx_streams[k].mapping[i][1]

\* A returned network whose stream s0 was declared with the entries c, a, c, b.
C18_Witness ==
    /\ result = "Ok"
    /\ nodes[1].tx_streams[1].object_entries = <<"c", "a", "c", "b">>
    /\ Len(net_nodes[1].tx_streams[1].mapping) = 4
    /\ net_nodes[1].tx_streams[1].mapping[1][1].id = 2
    /\ net_nodes[1].tx_streams[1].mapping[4][1].id = 1

(***************************************************************************)
(* Object entries: the nodes n1 and n2 get object entries, of type u8 or   *)
(* of the enum get_resp_erno, in any interleaving.                         *)
(***************************************************************************)
EntryDescs == {DescU(8), DescName("get_resp_erno")}

InitEntries ==
    /\ buses = <<>>
    /\ types = new_types
    /\ messages = new_messages
    /\ nodes = <<NodeBuilder("n1"), NodeBuilder("n2")>>
    /\ NotBuilt
    /\ overflow_checks = TRUE   \* nothing overflows in this scenario

CreateNextObjectEntry ==
    \E n \in 1..Len(nodes), desc \in EntryDescs :
        /\ Len(nodes[n].object_entries) < MaxObjectEntries
        /\ CreateObjectEntry(n, nodes[n].name \o "_e" \o ToString(Len(nodes[n].object_entries)),
                             desc)

NextEntries ==
    \/ CreateNextObjectEntry
    \/ BuildBuses
    \/ BuildTypes
    \/ ResolveIdsFiltersAndBuses
    \/ BuildMessages
    \/ TagProtocol
    \/ BuildNode
    \/ CrossLink
    \/ Finish

SpecEntries == InitEntries /\ [][NextEntries]_vars

(* C19: in every compiled node the object entries stand in the order of    *)
(* their declaration and the k-th of them, counted from 0, has the id k,   *)
(* whatever the other nodes hold.                                          *)
C19_ObjectEntryIds ==
    \A n \in 1..Len(net_nodes) :
        /\ Len(net_nodes[n].object_entries) = Len(nodes[n].object_entries)
        /\ \A k \in 1..Len(nodes[n].object_entries) :
              /\ net_nodes[n].object_entries[k].name = nodes[n].object_entries[k].name
              /\ net_nodes[n].object_entries[k].id = k - 1

\* A returned network in which n1 has three object entries and n2 two.
C19_Witness ==
    /\ result = "Ok"
    /\ Len(nodes[1].object_entries) = 3
    /\ Len(nodes[2].object_entries) = 2
    /\ net_nodes[1].object_entries[3].id = 2
    /\ net_nodes[2].object_entries[1].id = 0
    /\ net_nodes[2].object_entries[2].id = 1

(***************************************************************************)
(* Extern commands: three nodes; the command c1 (request r1, response p1)  *)
(* and the command c2 (request r2, response p2) are each created on one of *)
(* the nodes, and any node declares extern commands by their request       *)
(* message (also its own commands, and commands that no node has).         *)
(***************************************************************************)
Requests == <<"r1", "r2">>
Responses == <<"p1", "p2">>

InitExtern ==
    /\ buses = <<>>
    /\ types = new_types
    /\ messages = new_messages \o <<MessageBuilder("r1", None), MessageBuilder("p1", None),
                                    MessageBuilder("r2", None), MessageBuilder("p2", None)>>
    /\ nodes = <<NodeBuilder("n1"), NodeBuilder("n2"), NodeBuilder("n3")>>
    /\ NotBuilt
    /\ overflow_checks = TRUE   \* nothing overflows in this scenario

\* The nodes that have a command with the request message named call_message.
Owners(call_message) ==
    {n \in 1..Len(nodes) :
        \E k \in 1..Len(nodes[n].commands) : nodes[n].commands[k].call_message = call_message}

CreateCommandOnce ==
    \E n \in 1..Len(nodes), c \in 1..Len(Requests) :
        /\ Owners(Requests[c]) = {}
        /\ CreateCommand(n, Requests[c], Responses[c])

\* NodeBuilder::add_extern_command on the node n: the command whose request
\* message is named call_message.
AddExternCommand(n, call_message) ==
    /\ pc = "decl"
    /\ nodes' = [nodes EXCEPT ![n].extern_commands =
                    Append(@, CommandBuilder("x", call_message, call_message))]
    /\ UNCHANGED <<buses, types, messages, build_vars, overflow_checks>>

Externs(n) == Len(nodes[n].extern_commands)

AddNextExternCommand ==
    \E n \in 1..Len(nodes), c \in 1..Len(Requests) :
        /\ Externs(1) + Externs(2) + Externs(3) < MaxExterns
        /\ AddExternCommand(n, Requests[c])

NextExtern ==
    \/ CreateCommandOnce
    \/ AddNextExternCommand
    \/ BuildBuses
    \/ BuildTypes
    \/ ResolveIdsFiltersAndBuses
    \/ BuildMessages
    \/ TagProtocol
    \/ BuildNode
    \/ CrossLink
    \/ Finish

SpecExtern == InitExtern /\ [][NextExtern]_vars

\* The compiled nodes other than i that have a command whose request message
\* is named call_message, and the first such command of the node j.
OtherOwners(i, call_message) ==
    {j \in (1..Len(net_nodes)) \ {i} :
        \E k \in 1..Len(net_nodes[j].commands) :
            net_messages[net_nodes[j].commands[k].tx_message].name = call_message}

FirstCommand(j, call_message) ==
    LET K == {k \in 1..Len(net_nodes[j].commands) :
                 net_messages[net_nodes[j].commands[k].tx_message].name = call_message}
    IN  net_nodes[j].commands[CHOOSE k \in K : \A l \in K : k <= l]

\* The pairs node i is expected to record for its extern commands from k on.
RECURSIVE ExpectedExterns(_, _)
ExpectedExterns(i, k) ==
    IF k > Len(nodes[i].extern_commands) THEN <<>>
    ELSE LET J == OtherOwners(i, nodes[i].extern_commands[k].call_message)
         IN  (IF J = {} THEN <<>>
              ELSE LET j == CHOOSE j \in J : \A l \in J : j <= l
                   IN  <<[node |-> net_nodes[j].name,
                          command |-> FirstCommand(j, nodes[i].extern_commands[k].call_message)]>>)
             \o ExpectedExterns(i, k + 1)

(* C20: in a returned network, node i records for each of its declared     *)
(* extern commands, in their order, the pair (owner name, command) of the  *)
(* first command whose request message has the extern command's request    *)
(* message name, scanning the nodes j # i in declaration order and each    *)
(* node's commands in order; none when no other node has such a command,   *)
(* never a command of node i itself, never more than one pair.             *)
C20_ExternCommands ==
    result = "Ok" =>
        \A i \in 1..Len(nodes) :
            net_nodes[i].extern_commands = ExpectedExterns(i, 1)

\* n2 declares the extern commands r2 (its own command) and r1 (a command of
\* n3): one pair, (n3, c of r1), is recorded.
C20_Witness ==
    /\ result = "Ok"
    /\ Owners("r1") = {3}
    /\ Owners("r2") = {2}
    /\ Externs(2) = 2
    /\ nodes[2].extern_commands[1].call_message = "r2"
    /\ nodes[2].extern_commands[2].call_message = "r1"
    /\ Len(net_nodes[2].extern_commands) = 1
    /\ net_nodes[2].extern_commands[1].node = "n3"

(***************************************************************************)
(* The pipeline: n1 owns the object entry a, the command c0 (request r1,   *)
(* response p1) and the tx stream s0 (carried by m1, with the entry a); n2 *)
(* owns the object entries a and b and receives s0; n3 owns nothing.  Any  *)
(* node declares the command of r1 as extern, and n2 maps positions of s0  *)
(* to its entries.                                                         *)
(***************************************************************************)
InitPipeline ==
    /\ buses = <<>>
    /\ types = new_types
    /\ messages = new_messages \o <<MessageBuilder("m1", None), MessageBuilder("r1", None),
                                    MessageBuilder("p1", None)>>
    /\ nodes = <<[NodeBuilder("n1") EXCEPT
                    !.object_entries = <<ObjectEntryBuilder("a", DescU(8))>>,
                    !.commands = <<CommandBuilder("c0", "r1", "p1")>>,
                    !.tx_streams = <<StreamBuilder("s0", "m1", <<"a">>)>>],
                 [NodeBuilder("n2") EXCEPT
                    !.object_entries = <<ObjectEntryBuilder("a", DescU(8)),
                                         ObjectEntryBuilder("b", DescName("get_resp_erno"))>>,
                    !.rx_streams = <<ReceiveStreamBuilder("n1", "s0", "n2", <<>>)>>],
                 NodeBuilder("n3")>>
    /\ NotBuilt
    /\ overflow_checks = TRUE   \* nothing overflows in this scenario

AddExternR1 ==
    \E n \in 1..Len(nodes) :
        /\ Externs(1) + Externs(2) + Externs(3) < MaxExterns
        /\ AddExternCommand(n, "r1")

SubscribeN2 ==
    \E pos \in 0..1, oe \in {"a", "b"} :
        /\ Len(Requested) < MaxPairs
        /\ MapPosition(2, 1, pos, oe)

NextPipeline ==
    \/ AddExternR1
    \/ SubscribeN2
    \/ BuildBuses
    \/ BuildTypes
    \/ ResolveIdsFiltersAndBuses
    \/ BuildMessages
    \/ TagProtocol
    \/ BuildNode
    \/ CrossLink
    \/ Finish

SpecPipeline == InitPipeline /\ [][NextPipeline]_vars

\* Some message is compiled; some extern command is resolved; some rx stream
\* is built.
MessageCompiled == net_messages # <<>>
ExternResolved == \E n \in 1..Len(net_nodes) : net_nodes[n].extern_commands # <<>>
RxStreamBuilt == \E n \in 1..Len(net_nodes) : net_nodes[n].rx_streams # <<>>

\* Every declared type is elaborated; every declared node is constructed with
\* all its commands, object entries and tx streams.
AllTypesElaborated == Len(net_types) = Len(types)
AllNodesConstructed ==
    /\ Len(net_nodes) = Len(nodes)
    /\ \A n \in 1..Len(nodes) :
          /\ net_nodes[n].name = nodes[n].name
          /\ Len(net_nodes[n].commands) = Len(nodes[n].commands)
          /\ Len(net_nodes[n].object_entries) = Len(nodes[n].object_entries)
          /\ Len(net_nodes[n].tx_streams) = Len(nodes[n].tx_streams)

(* C21: at every point of a run of build(), a compiled message exists only *)
(* when all the types are elaborated, and a resolved extern command or a   *)
(* built rx stream exists only when every node is constructed with all its *)
(* commands, object entries and tx streams.                                *)
C21_PipelineOrdering ==
    /\ MessageCompiled => AllTypesElaborated
    /\ ExternResolved => AllNodesConstructed
    /\ RxStreamBuilt => AllNodesConstructed

\* A returned network in which n1 has resolved nothing (the command is its
\* own), n2 has the pair of n1's command and the rx stream.
C21_Witness ==
    /\ result = "Ok"
    /\ Externs(1) = 1
    /\ Externs(2) = 1
    /\ net_nodes[1].extern_commands = <<>>
    /\ Len(net_nodes[2].extern_commands) = 1
    /\ Len(net_nodes[2].rx_streams) = 1
    /\ Len(Requested) = 2

(***************************************************************************)
(* The protocol prelude, in the scenario of the message formats.           *)
(***************************************************************************)
Compiled(name) == net_messages[Position(net_messages, name)]
Widths(message) == [k \in 1..Len(message.signals) |-> Width(message.signals[k])]
StatusEnum == net_types[Position(net_types, "set_resp_erno")]

\* The layout of get_req, get_resp and set_req.
RequestLayout ==
    /\ Widths(Compiled(get_req_name)) = <<13, 8, 8>>
    /\ Compiled(get_req_name).dlc = 4
    /\ Widths(Compiled(get_resp_name)) = <<1, 1, 1, 13, 8, 8, 32>>
    /\ Compiled(get_resp_name).dlc = 8
    /\ Widths(Compiled(set_req_name)) = <<1, 1, 1, 13, 8, 8, 32>>
    /\ Compiled(set_req_name).dlc = 8
    /\ \A name \in ProtocolNames : Contiguous(Compiled(name).signals)

(* C22 (as claimed): in every network built from new(), get_req has the    *)
(* signal widths 13, 8, 8 (DLC 4), get_resp and set_req have 1, 1, 1, 13,  *)
(* 8, 8, 32 (DLC 8), and set_resp has 8, 8 and a status signal as wide as  *)
(* the enum {Success = 0, Error = 1}, 1 bit; all offsets are contiguous    *)
(* from 0.                                                                 *)
C22_PreludeLayout ==
    MessagesBuilt =>
        /\ RequestLayout
        /\ StatusEnum.size = 1
        /\ Widths(Compiled(set_resp_name)) = <<8, 8, StatusEnum.size>>

\* What build() lays out: the status signal of set_resp is 0 bits wide.
C22_CodeLayout ==
    MessagesBuilt =>
        /\ RequestLayout
        /\ StatusEnum.size = 1
        /\ Widths(Compiled(set_resp_name)) = <<8, 8, 0>>
        /\ Compiled(set_resp_name).dlc = 2

(***************************************************************************)
(* Type closure: the structs S3 {S2, S1}, S2 {S1, E1}, S1 {u8, E0} and the *)
(* enums E0, E1 are declared (in this order), the messages m1 (fields S2,  *)
(* u8), m2 (field E0) and m3 (fields S3, S1) are created; the node n1 gets *)
(* rx and tx messages among them and object entries of type u8, S1 or E1.  *)
(***************************************************************************)
ClosureTypes ==
    <<StructBuilder("S3", <<Attribute("a0", DescName("S2")), Attribute("a1", DescName("S1"))>>),
      StructBuilder("S2", <<Attribute("a0", DescName("S1")), Attribute("a1", DescName("E1"))>>),
      StructBuilder("S1", <<Attribute("a0", DescU(8)), Attribute("a1", DescName("E0"))>>),
      EnumBuilder("E0", SuccessError),
      EnumBuilder("E1", <<Entry("A", U64(0)), Entry("B", U64(3))>>)>>

TypedMessage(name, fields) == [MessageBuilder(name, None) EXCEPT !.format = FormatTypes(fields)]

ClosureMessages ==
    <<TypedMessage("m1", <<Field(DescName("S2"), "f0"), Field(DescU(8), "f1")>>),
      TypedMessage("m2", <<Field(DescName("E0"), "f0")>>),
      TypedMessage("m3", <<Field(DescName("S3"), "f0"), Field(DescName("S1"), "f1")>>)>>

ClosureEntryDescs == {DescU(8), DescName("S1"), DescName("E1")}

InitClosure ==
    /\ buses = <<>>
    /\ types = new_types \o ClosureTypes
    /\ messages = new_messages \o ClosureMessages
    /\ nodes = <<NodeBuilder("n1"), NodeBuilder("n2")>>
    /\ NotBuilt
    /\ overflow_checks = TRUE   \* nothing overflows in this scenario

\* NodeBuilder::add_rx_message / add_tx_message on the node n.
AddRxMessage(n, name) ==
    /\ pc = "decl"
    /\ nodes' = [nodes EXCEPT ![n].rx_messages = Append(@, name)]
    /\ UNCHANGED <<buses, types, messages, build_vars, overflow_checks>>

AddTxMessage(n, name) ==
    /\ pc = "decl"
    /\ nodes' = [nodes EXCEPT ![n].tx_messages = Append(@, name)]
    /\ UNCHANGED <<buses, types, messages, build_vars, overflow_checks>>

ReceiveN1 ==
    \E m \in 1..Len(ClosureMessages) :
        /\ nodes[1].rx_messages = <<>>
        /\ AddRxMessage(1, ClosureMessages[m].name)

TransmitN1 ==
    \E m \in 1..Len(ClosureMessages) :
        /\ nodes[1].tx_messages = <<>>
        /\ AddTxMessage(1, ClosureMessages[m].name)

CreateTypedEntryN1 ==
    \E desc \in ClosureEntryDescs :
        /\ Len(nodes[1].object_entries) < MaxObjectEntries
        /\ CreateObjectEntry(1, "e" \o ToString(Len(nodes[1].object_entries)), desc)

NextClosure ==
    \/ ReceiveN1
    \/ TransmitN1
    \/ CreateTypedEntryN1
    \/ BuildBuses
    \/ BuildTypes
    \/ ResolveIdsFiltersAndBuses
    \/ BuildMessages
    \/ TagProtocol
    \/ BuildNode
    \/ CrossLink
    \/ Finish

SpecClosure == InitClosure /\ [][NextClosure]_vars

\* The struct and enum types reachable from a type through struct attributes.
RECURSIVE TypesIn(_)
TypesIn(ty) ==
    IF ty.kind = "Struct"
        THEN {ty} \cup UNION {TypesIn(ty.attribs[k].ty) : k \in 1..Len(ty.attribs)}
    ELSE IF ty.kind = "Enum" THEN {ty}
    ELSE {}

\* The types of the fields of the declared message named `name`.
FieldTypes(name) ==
    LET fields == messages[DeclaredMessage(name)].format.fields
    IN  UNION {TypesIn(resolve_type(net_types, fields[k].ty).v[1]) : k \in 1..Len(fields)}

\* The closure of the node n: from its rx and tx messages and object entries.
Closure(n) ==
    UNION {FieldTypes(nodes[n].rx_messages[k]) : k \in 1..Len(nodes[n].rx_messages)}
    \cup UNION {FieldTypes(nodes[n].tx_messages[k]) : k \in 1..Len(nodes[n].tx_messages)}
    \cup UNION {TypesIn(resolve_type(net_types, nodes[n].object_entries[k].ty).v[1]) :
                   k \in 1..Len(nodes[n].object_entries)}

(* C23: the type list of every compiled node holds exactly the struct and  *)
(* enum types reachable from the encodings of its rx and tx messages and   *)
(* from the types of its object entries, each of them once, and every type *)
(* after the types its attributes reference.                               *)
C23_TypeClosure ==
    \A n \in 1..Len(net_nodes) :
        /\ {net_nodes[n].types[p] : p \in 1..Len(net_nodes[n].types)} = Closure(n)
        /\ Len(net_nodes[n].types) = Cardinality(Closure(n))
        /\ \A p \in 1..Len(net_nodes[n].types) :
              \A t \in TypesIn(net_nodes[n].types[p]) \ {net_nodes[n].types[p]} :
                  \E q \in 1..(p - 1) : net_nodes[n].types[q] = t

\* n1 receives m3 and has an object entry of type E1: its types are the
\* five declared ones, S3 last; n2 has none.
C23_Witness ==
    /\ result = "Ok"
    /\ nodes[1].rx_messages = <<"m3">>
    /\ nodes[1].tx_messages = <<>>
    /\ Len(nodes[1].object_entries) = 1
    /\ nodes[1].object_entries[1].ty = DescName("E1")
    /\ Len(net_nodes[1].types) = 5
    /\ net_nodes[1].types[5].name = "S3"
    /\ net_nodes[2].types = <<>>

(***************************************************************************)
(* Node names: create_node is called with names of a small set, between    *)
(* calls of define_enum, define_struct, create_message and create_bus.     *)
(***************************************************************************)
NodeNames == {"n" \o ToString(k) : k \in 1..MaxNodes}

\* A handle is the position of the node builder in the list.
Created(ns, node) == [nodes |-> ns, node |-> node]

\* create_node(name): the node list after the call and the returned node.
create_node(ns, name) ==
    LET existing_node == Position(ns, name)
    IN  IF existing_node = 0
            THEN Created(Append(ns, NodeBuilder(name)), Len(ns) + 1)
        ELSE Created(ns, existing_node)

CreateNode(name) ==
    /\ pc = "decl"
    /\ nodes' = create_node(nodes, name).nodes
    /\ UNCHANGED <<buses, types, messages, build_vars, overflow_checks>>

InitNodes ==
    /\ buses = <<>>
    /\ types = new_types
    /\ messages = new_messages
    /\ nodes = <<>>
    /\ NotBuilt
    /\ overflow_checks = TRUE   \* nothing overflows in this scenario

CreateNamedNode ==
    \E name \in NodeNames :
        /\ Len(nodes) < MaxNodes
        /\ CreateNode(name)

DefineS1 == Declared("S1") = 0 /\ Declared("E1") = 0 /\ DefineStruct("S1")

DefineOnlyE1 == Declared("S1") = 0 /\ Declared("E1") = 0 /\ DefineEnum("E1")

CreateFirstBus == buses = <<>> /\ CreateBus("bus0")

\* The number of nodes whose ids fit the u16 of Node::new.
U16Nodes == Pow2(16)

\* The lengths nodes.len() of the compiled list at which push_node is tried.
PushLens == {0, 1, U16Nodes - 1, U16Nodes, U16Nodes + 1}

\* push_node for the long lists.  The id that push_node gives is a function
\* of the length of the compiled list alone, and a list of U16Nodes nodes is
\* beyond what the states of this model hold; here the list is kept by its
\* length: node_i is nodes.len() when the node is pushed, nodes is the
\* builder of that node and net_nodes gets the node that is pushed.
InitPush ==
    /\ buses = <<>>
    /\ types = new_types
    /\ messages = new_messages
    /\ \E name \in NodeNames : nodes = <<NodeBuilder(name)>>
    /\ pc = "push"
    /\ result = "none"
    /\ net_buses = <<>>
    /\ type_builders = <<>>
    /\ net_types = <<>>
    /\ net_messages = <<>>
    /\ net_nodes = <<>>
    /\ node_i \in PushLens
    /\ overflow_checks = TRUE

PushNode ==
    /\ pc = "push"
    /\ net_nodes' = <<push_node(Ok(NodeState(net_messages)), nodes[1], node_i).v[1].node>>
    /\ pc' = "pushed"
    /\ UNCHANGED <<builder_vars, overflow_checks, result, net_buses, type_builders, net_types,
                   net_messages, node_i>>

NextNodes ==
    \/ CreateNamedNode
    \/ DefineS1
    \/ DefineOnlyE1
    \/ CreateM1
    \/ CreateFirstBus
    \/ BuildBuses
    \/ BuildTypes
    \/ ResolveIdsFiltersAndBuses
    \/ BuildMessages
    \/ TagProtocol
    \/ BuildNode
    \/ CrossLink
    \/ Finish
    \/ PushNode

SpecNodes == (InitNodes \/ InitPush) /\ [][NextNodes]_vars

NamesOf(ns) == {ns[k].name : k \in 1..Len(ns)}

DistinctNames(ns) == Cardinality(NamesOf(ns)) = Len(ns)

\* What a call of create_node does to the present list, for every name.
CreateNodeStep(name) ==
    LET created == create_node(nodes, name)
    IN  /\ DistinctNames(created.nodes)
        /\ created.nodes[created.node].name = name
        /\ IF name \in NamesOf(nodes)
               THEN created.nodes = nodes
           ELSE /\ Len(created.nodes) = Len(nodes) + 1
                /\ SubSeq(created.nodes, 1, Len(nodes)) = nodes

\* Whether net_nodes is the compiled list (and not the one node of PushNode).
WholeList == pc \notin {"push", "pushed"}

(* C24 (as claimed): after any sequence of create_node, create_message,    *)
(* define_struct, define_enum and create_bus calls no two nodes share a    *)
(* name; a call of create_node with a used name returns the existing node  *)
(* and leaves the list as it is, a call with a new name appends exactly    *)
(* one node; the compiled nodes have the ids of their order of first       *)
(* creation: the node pushed to a list of n nodes has the id n.            *)
C24_NodeNameUniqueness ==
    /\ DistinctNames(nodes)
    /\ \A name \in NodeNames : CreateNodeStep(name)
    /\ DistinctNames(net_nodes)
    /\ WholeList =>
          \A k \in 1..Len(net_nodes) :
              /\ net_nodes[k].name = nodes[k].name
              /\ net_nodes[k].id = k - 1
    /\ pc = "pushed" =>
          /\ net_nodes[1].name = nodes[1].name
          /\ net_nodes[1].id = node_i

\* The same without the ids: the names are unique, in the builder and among
\* the compiled nodes, and create_node does what the claim says.
C24_NamesUnique ==
    /\ DistinctNames(nodes)
    /\ \A name \in NodeNames : CreateNodeStep(name)
    /\ DistinctNames(net_nodes)
    /\ \A k \in 1..Len(net_nodes) : net_nodes[k].name = nodes[k].name

\* What the code does with the ids: the id is the order of first creation
\* cast to u16, so the first U16Nodes ids are that order and the ids repeat
\* from node number U16Nodes + 1 on.
C24_CodeNodeIds ==
    /\ WholeList => \A k \in 1..Len(net_nodes) : net_nodes[k].id = k - 1
    /\ pc = "pushed" =>
          /\ net_nodes[1].id = node_i % U16Nodes
          /\ node_i < U16Nodes => net_nodes[1].id = node_i
          /\ node_i = U16Nodes => net_nodes[1].id = 0

\* Three nodes were created, n2 first and n1 last, among a struct, a message
\* and a bus; a further create_node("n2") returns the first node.
C24_Witness ==
    /\ result = "Ok"
    /\ Len(nodes) = 3
    /\ nodes[1].name = "n2"
    /\ nodes[3].name = "n1"
    /\ Declared("S1") > 0
    /\ DeclaredMessage("m1") > 0
    /\ Len(buses) = 1
    /\ create_node(nodes, "n2") = Created(nodes, 1)
    /\ net_nodes[1].name = "n2" /\ net_nodes[1].id = 0
    /\ net_nodes[3].name = "n1" /\ net_nodes[3].id = 2

(***************************************************************************)
(* Rx mappings: the node n1 owns the object entries a (u8) and b (u16) and *)
(* publishes both in the tx stream s0 on the message m1; the nodes n2      *)
(* (entries a: u16, b: u8) and n3 (entry a: u32) receive s0 and map        *)
(* positions of it to entries named a or b.                                *)
(***************************************************************************)
InitRx ==
    /\ buses = <<>>
    /\ types = new_types
    /\ messages = new_messages \o <<MessageBuilder("m1", None)>>
    /\ nodes = <<[NodeBuilder("n1") EXCEPT
                     !.object_entries = <<ObjectEntryBuilder("a", DescU(8)),
                                          ObjectEntryBuilder("b", DescU(16))>>,
                     !.tx_streams = <<StreamBuilder("s0", "m1", <<"a", "b">>)>>],
                 [NodeBuilder("n2") EXCEPT
                     !.object_entries = <<ObjectEntryBuilder("a", DescU(16)),
                                          ObjectEntryBuilder("b", DescU(8))>>,
                     !.rx_streams = <<ReceiveStreamBuilder("n1", "s0", "n2", <<>>)>>],
                 [NodeBuilder("n3") EXCEPT
                     !.object_entries = <<ObjectEntryBuilder("a", DescU(32))>>,
                     !.rx_streams = <<ReceiveStreamBuilder("n1", "s0", "n3", <<>>)>>]>>
    /\ NotBuilt
    /\ overflow_checks = TRUE   \* nothing overflows in this scenario

Pairs(n) == nodes[n].rx_streams[1].object_entries

MapNext ==
    \E n \in {2, 3}, pos \in 0..MaxPairs, oe \in {"a", "b"} :
        /\ Len(Pairs(2)) + Len(Pairs(3)) < MaxPairs
        /\ MapPosition(n, 1, pos, oe)

NextRx ==
    \/ MapNext
    \/ BuildBuses
    \/ BuildTypes
    \/ ResolveIdsFiltersAndBuses
    \/ BuildMessages
    \/ TagProtocol
    \/ BuildNode
    \/ CrossLink
    \/ Finish

SpecRx == InitRx /\ [][NextRx]_vars

\* The declared pairs that the slot p (counted from 0) holding e stands for.
PairsOfSlot(declared, p, e) ==
    {k \in 1..Len(declared) : declared[k].pos = p /\ declared[k].oe = e.name}

\* The slots (counted from 0) of a mapping that hold an entry.
Filled(mapping) == {p \in 0..(Len(mapping) - 1) : mapping[p + 1] # None}

\* The compiled object entries of the nodes other than n.
ForeignEntries(n) ==
    UNION {{net_nodes[o].object_entries[k] : k \in 1..Len(net_nodes[o].object_entries)} :
              o \in (1..Len(net_nodes)) \ {n}}

\* The compiled tx stream that the declared rx stream receives.
TxStreamOf(declared) ==
    LET tx_node == net_nodes[Position(net_nodes, declared.tx_node)]
    IN  tx_node.tx_streams[Position(tx_node.tx_streams, declared.stream)]

RxSound(n, s) ==
    LET declared == nodes[n].rx_streams[s]
        stream == net_nodes[n].rx_streams[s]
    IN  /\ \A p \in Filled(stream.mapping) :
              LET e == stream.mapping[p + 1][1]
              IN  /\ PairsOfSlot(declared.object_entries, p, e) # {}
                  /\ \E k \in 1..Len(net_nodes[n].object_entries) :
                        net_nodes[n].object_entries[k] = e
                  /\ result = "Ok" => e.node = Some(nodes[n].name)
                  /\ e \notin ForeignEntries(n)
        /\ \A k \in 1..Len(declared.object_entries) :
              Cardinality({p \in Filled(stream.mapping) :
                              k \in PairsOfSlot(declared.object_entries, p,
                                                stream.mapping[p + 1][1])}) <= 1
        /\ Cardinality(Filled(stream.mapping)) <= Len(declared.object_entries)
        /\ stream.name = TxStreamOf(declared).name
        /\ stream.message = TxStreamOf(declared).message
        /\ net_messages[stream.message].writes = 1
        /\ net_messages[stream.message].usage[1].kind = "Stream"

(* C25: in every compiled rx stream a slot p that holds an entry e stands  *)
(* for a pair (p, e') declared by the subscriber, and e is the subscriber  *)
(* node's own compiled object entry named as e'; no slot holds an entry of *)
(* the publisher or of a third node, no declared pair stands in more than  *)
(* one slot, and the rx stream has the name and the message of the         *)
(* publisher's tx stream, whose usage was written once only.               *)
C25_RxMappingSoundness ==
    \A n \in 1..Len(net_nodes) :
        \A s \in 1..Len(net_nodes[n].rx_streams) : RxSound(n, s)

\* n2 maps the positions 0 and 1 to its entries b and a: both slots are
\* filled with n2's own entries, while n1 publishes entries of these names.
C25_Witness ==
    /\ result = "Ok"
    /\ Pairs(2) = <<Pair(1, "a"), Pair(0, "b")>>
    /\ Len(net_nodes[2].rx_streams) = 1
    /\ Filled(net_nodes[2].rx_streams[1].mapping) = {0, 1}
    /\ net_nodes[2].rx_streams[1].mapping[1][1] = net_nodes[2].object_entries[2]
    /\ net_nodes[2].rx_streams[1].mapping[2][1] = net_nodes[2].object_entries[1]
    /\ net_nodes[2].rx_streams[1].mapping[1][1] # net_nodes[1].object_entries[2]
    /\ net_nodes[2].rx_streams[1].mapping[1][1].node = Some("n2")
    /\ Len(net_nodes[3].rx_streams) = 1
    /\ net_nodes[3].rx_streams[1].mapping = <<>>

====
